---------------------------- MODULE Spec2Model ----------------------------
(***************************************************************************)
(* A model of src/src/utils/ImageConverter.js: the byte-level writers of   *)
(* the converter (CRC-32, PNG pHYs splice, JFIF patch, RGBA compositor,     *)
(* TIFF writer), the input validation and the pipeline of convertSvg, and  *)
(* the page of src/src/SvgConverter.jsx with its FileUpload.               *)
(*                                                                         *)
(* Conventions.  A byte buffer (Uint8Array) is a sequence of integers in   *)
(* 0..255; the JavaScript index i is the TLA+ index i + 1.  TLC's integers *)
(* are 32-bit signed, so a JavaScript number that takes part in 32-bit     *)
(* bitwise arithmetic is a record [hi, lo] that stands for the number      *)
(* hi * 65536 + lo, with lo in 0..65535 and hi in -32768..65535: this      *)
(* covers both the signed results of ^ and & and the unsigned results of   *)
(* >>>.  A DPI is a JavaScript number [n, d]: the rational n / d when      *)
(* d > 0, and NaN when d = 0.                                              *)
(***************************************************************************)
EXTENDS Integers, Sequences, FiniteSets, TLC

VARIABLES
    pc,         \* the component being exercised and its position
    crcData,    \* _calculateCrc32: the argument `data`
    crcOut,     \* _calculateCrc32: the returned number
    pngData,    \* _addPngDpiChunk: the argument `pngData`
    pngDpi,     \* _addPngDpiChunk: the argument `dpi`
    pngOut,     \* _addPngDpiChunk: the completion (return value or throw)
    jpegData,   \* _setJfifDpi: the argument `jpegData`
    jpegDpi,    \* _setJfifDpi: the argument `dpi`
    offset,     \* _setJfifDpi: the local `offset` of the APPn scan
    jfifMarkerIndex,    \* _setJfifDpi: the local `jfifMarkerIndex`
    jpegOut,    \* _setJfifDpi: the completion
    rgbaData,   \* _rgbaToRgb: the argument `rgbaData`
    preserveTransparency,   \* _rgbaToRgb: the argument of that name
    rgbOut,     \* _rgbaToRgb: the returned buffer
    canvas,     \* canvasToTiff: the canvas, [width, height, data]
    tiffDpi,    \* canvasToTiff: the argument `dpi`
    transparentBackground,  \* canvasToTiff: the argument of that name
    tiffNow,    \* the date new Date() gives while the tags are made
    tiffTags,   \* _buildTiffBuffer: the argument `tags` as passed
    tiffEntries,    \* _buildTiffBuffer: the entries of `tags` after the call
    tiffCompressed, \* _buildTiffBuffer: the argument `compressedData`
    tiffOut,    \* canvasToTiff / _buildTiffBuffer: the completion
    convSvg,    \* convertSvg: the argument `svgString`
    convFormat, \* convertSvg: the argument `format`
    convDpi,    \* convertSvg: the argument `dpi`
    convQuality,    \* convertSvg: the argument `quality`
    convOut,    \* convertSvg: the completion of _validateInputs
    convFlag,   \* convertSvg / svgToCanvas: the argument `transparentBackground`
    rasterCalled,   \* whether svgToCanvas has been invoked
    img,        \* svgToCanvas: the image loaded, [naturalWidth, naturalHeight]
    dimensions, \* svgToCanvas: the local `dimensions`
    rasterOut,  \* svgToCanvas: the completion
    encBytes,   \* canvasToPng / canvasToJpeg: the bytes of the encoded image
    encOut,     \* canvasToPng / canvasToJpeg / canvasToTiff: the completion
    convResult, \* convertSvg: the completion
    otherRanAt, \* the suspension points at which another task has run
    raised,     \* the stages of the conversion that have raised an error
    heap,       \* the byte buffers allocated, by reference (index)
    argRef,     \* the reference passed to the stage called
    outRef,     \* the reference the stage returned
    given,      \* the bytes the argument held when the stage was called
    stageArg,   \* the stage's other argument: the flag, or the DPI
    svgFile,    \* SvgConverter: the state svgFile (the file's name, or null)
    svgContent, \* SvgConverter: the state svgContent
    outputFormat,           \* SvgConverter: the state outputFormat
    uiDpi,                  \* SvgConverter: the state dpi
    uiTransparentBackground, \* SvgConverter: the state transparentBackground
    isConverting,           \* SvgConverter: the state isConverting
    progress,   \* SvgConverter: the state progress
    uiError,    \* SvgConverter: the state error
    selectedFile, \* FileUpload: the state selectedFile
    readers,    \* the files whose FileReader has not yet called onload
    timers,     \* the number of reset timers set and not yet fired
    downloaded, \* the last call of downloadFile: <<file name, extension>>
    flagCleared \* the last format or background event unchecked a set flag

crcVars == <<crcData, crcOut>>
pngVars == <<pngData, pngDpi, pngOut>>
jpegVars == <<jpegData, jpegDpi, offset, jfifMarkerIndex, jpegOut>>

rgbVars == <<rgbaData, preserveTransparency, rgbOut>>
tiffVars ==
    <<canvas, tiffDpi, transparentBackground, tiffNow, tiffTags, tiffEntries,
      tiffCompressed, tiffOut>>
convVars == <<convSvg, convFormat, convDpi, convQuality, convOut>>
pipeVars ==
    <<convFlag, rasterCalled, img, dimensions, rasterOut, encBytes, encOut,
      convResult, otherRanAt, raised>>
heapVars == <<heap, argRef, outRef, given, stageArg>>
uiVars ==
    <<svgFile, svgContent, outputFormat, uiDpi, uiTransparentBackground,
      isConverting, progress, uiError, selectedFile, readers, timers, downloaded,
      flagCleared>>

vars ==
    <<pc, crcVars, pngVars, jpegVars, rgbVars, tiffVars, convVars, pipeVars, heapVars, uiVars>>

----------------------------------------------------------------------------
(* JavaScript values *)

\* The value of a read outside a buffer: undefined, told apart from every byte.
Undefined == -1
None == "none"

Bytes == 0..255

\* The number n as a JavaScript number.
Num(n) == [n |-> n, d |-> 1]
NaN == [n |-> 0, d |-> 0]
IsNaN(x) == x.d = 0
IsInteger(x) == x.d > 0 /\ x.n % x.d = 0

\* Math.round of the rational p / q (q > 0): floor(p / q + 1/2).
MathRound(p, q) == (p \div q) + (IF 2 * (p % q) >= q THEN 1 ELSE 0)

\* The integer part of a JavaScript number, NaN giving 0 (the first step of
\* ToInt32, ToUint32 and ToUint16).
Trunc(x) ==
    IF IsNaN(x) THEN 0
    ELSE IF x.n >= 0 THEN x.n \div x.d ELSE -((-x.n) \div x.d)

\* A completion of a call: a returned value or a thrown error.
Return(v) == [kind |-> "return", value |-> v, error |-> None]
Throw(e) == [kind |-> "throw", value |-> <<>>, error |-> e]

\* data.slice(from, to) of the JavaScript indices from .. to - 1.
Slice(data, from, to) ==
    LET hi == IF to < Len(data) THEN to ELSE Len(data)
    IN  IF from >= hi THEN <<>> ELSE SubSeq(data, from + 1, hi)

\* data[i]: undefined outside the buffer.
At(data, i) == IF i >= 0 /\ i < Len(data) THEN data[i + 1] ELSE Undefined

----------------------------------------------------------------------------
(* 32-bit bitwise arithmetic *)

\* XOR of two 4-bit numbers, bit by bit.
Xor4 ==
    [a \in 0..15 |-> [b \in 0..15 |->
        ((a + b) % 2)
          + 2 * (((a \div 2) + (b \div 2)) % 2)
          + 4 * (((a \div 4) + (b \div 4)) % 2)
          + 8 * (((a \div 8) + (b \div 8)) % 2)]]

\* XOR of two 16-bit numbers, four bits at a time.
Xor16(a, b) ==
    Xor4[a % 16][b % 16]
      + 16 * Xor4[(a \div 16) % 16][(b \div 16) % 16]
      + 256 * Xor4[(a \div 256) % 16][(b \div 256) % 16]
      + 4096 * Xor4[(a \div 4096) % 16][(b \div 4096) % 16]

Pow2(k) == 2 ^ k

\* The integer v (|v| < 2^31) as a word.
Word(v) == [hi |-> v \div 65536, lo |-> v % 65536]

ToUint32(w) == [hi |-> w.hi % 65536, lo |-> w.lo]

ToInt32(w) ==
    LET h == w.hi % 65536
    IN  [hi |-> IF h >= 32768 THEN h - 65536 ELSE h, lo |-> w.lo]

\* a ^ b: the result is a signed 32-bit number.
BitXor(a, b) ==
    ToInt32([hi |-> Xor16(a.hi % 65536, b.hi % 65536), lo |-> Xor16(a.lo, b.lo)])

\* a >>> k, 0 <= k <= 16: zero-filling, the result is unsigned.
ShiftRightLogical(a, k) ==
    LET u == ToUint32(a)
    IN  [hi |-> u.hi \div Pow2(k),
         lo |-> (u.lo \div Pow2(k)) + (u.hi % Pow2(k)) * Pow2(16 - k)]

\* a >> k, 0 <= k <= 16: sign-propagating, the result is signed.
ShiftRightArithmetic(a, k) ==
    LET s == ToInt32(a)
    IN  [hi |-> s.hi \div Pow2(k),
         lo |-> (s.lo \div Pow2(k)) + (s.hi % Pow2(k)) * Pow2(16 - k)]

\* The four bytes DataView.setUint32(_, w, false) stores, most significant first.
BigEndian32(w) ==
    LET u == ToUint32(w)
    IN  <<u.hi \div 256, u.hi % 256, u.lo \div 256, u.lo % 256>>

\* The two bytes DataView.setUint16(_, v, false) stores for the integer v.
BigEndian16(v) == <<(v \div 256) % 256, v % 256>>

----------------------------------------------------------------------------
(* _calculateCrc32 *)

\* 0xEDB88320
CrcPolynomial == [hi |-> 60856, lo |-> 33568]

\* One pass of the table builder's inner loop.
crcTableShift(c) ==
    IF c.lo % 2 = 1
    THEN BitXor(CrcPolynomial, ShiftRightLogical(c, 1))
    ELSE ShiftRightLogical(c, 1)

\* for (let j = 0; j < 8; j++): the loop state is the record [c, j].
RECURSIVE crcTableLoop(_)
crcTableLoop(st) ==
    IF st.j >= 8 THEN st.c
    ELSE crcTableLoop([c |-> crcTableShift(st.c), j |-> st.j + 1])

\* new Uint32Array(256).map((_, i) => ...): each entry is stored unsigned.
crcTable == [i \in 0..255 |-> ToUint32(crcTableLoop([c |-> Word(i), j |-> 0]))]

\* A variant of the update step that shifts with >> instead of >>>.
crcUpdateSignedShift(crc, byte) ==
    BitXor(crcTable[Xor16(crc.lo, byte) % 256], ShiftRightArithmetic(crc, 8))

\* crc = crcTable[(crc ^ data[i]) & 0xFF] ^ (crc >>> 8)
crcUpdate(crc, byte) ==
    BitXor(crcTable[Xor16(crc.lo, byte) % 256], ShiftRightLogical(crc, 8))

\* for (let i = 0; i < data.length; i++): the loop state is the record [crc, i].
RECURSIVE crcLoop(_, _)
crcLoop(st, data) ==
    IF st.i >= Len(data) THEN st.crc
    ELSE crcLoop([crc |-> crcUpdate(st.crc, data[st.i + 1]), i |-> st.i + 1], data)

calculateCrc32(data) ==
    ShiftRightLogical(BitXor(crcLoop([crc |-> Word(-1), i |-> 0], data), Word(-1)), 0)


----------------------------------------------------------------------------
(* _addPngDpiChunk *)

IHDR_CHUNK_LENGTH == 25
PNG_SIGNATURE_LENGTH == 8
insertionPoint == PNG_SIGNATURE_LENGTH + IHDR_CHUNK_LENGTH

\* 'PNG', 'IHDR' and 'pHYs' as character codes.
PngText == <<80, 78, 71>>
IhdrText == <<73, 72, 68, 82>>
CHUNK_TYPE_BYTES == <<112, 72, 89, 115>>

\* Math.round(dpi * 39.3701): NaN for a NaN dpi.
pixelsPerMeter(dpi) ==
    IF IsNaN(dpi) THEN NaN ELSE Num(MathRound(dpi.n * 393701, dpi.d * 10000))

\* The 9-byte payload: setUint32(0, ppm), setUint32(4, ppm), setUint8(8, 1).
physChunkData(dpi) ==
    BigEndian32(Word(Trunc(pixelsPerMeter(dpi))))
        \o BigEndian32(Word(Trunc(pixelsPerMeter(dpi)))) \o <<1>>

\* A variant whose CRC covers the payload only, not the chunk type.
physChunkCrcOverData(dpi) ==
    BigEndian32(Word(9)) \o CHUNK_TYPE_BYTES \o physChunkData(dpi)
        \o BigEndian32(calculateCrc32(physChunkData(dpi)))

\* Length (4B) + Type (4B) + Data (9B) + CRC (4B).
physChunk(dpi) ==
    BigEndian32(Word(9)) \o CHUNK_TYPE_BYTES \o physChunkData(dpi)
        \o BigEndian32(calculateCrc32(CHUNK_TYPE_BYTES \o physChunkData(dpi)))

\* A variant that splices the chunk after the signature, before IHDR.
addPngDpiChunkBeforeIhdr(data, dpi) ==
    IF \/ Len(data) < insertionPoint
       \/ Slice(data, 1, 4) # PngText
       \/ Slice(data, 12, 16) # IhdrText
    THEN Throw("Invalid PNG format: Missing IHDR chunk at expected position.")
    ELSE Return(Slice(data, 0, PNG_SIGNATURE_LENGTH) \o physChunk(dpi)
                    \o Slice(data, PNG_SIGNATURE_LENGTH, Len(data)))

addPngDpiChunk(data, dpi) ==
    IF \/ Len(data) < insertionPoint
       \/ Slice(data, 1, 4) # PngText
       \/ Slice(data, 12, 16) # IhdrText
    THEN Throw("Invalid PNG format: Missing IHDR chunk at expected position.")
    ELSE Return(Slice(data, 0, insertionPoint) \o physChunk(dpi)
                    \o Slice(data, insertionPoint, Len(data)))

----------------------------------------------------------------------------
(* _setJfifDpi *)

\* (dpi >> 8) & 0xFF and dpi & 0xFF.
dpiHighByte(dpi) == (Trunc(dpi) \div 256) % 256
dpiLowByte(dpi) == Trunc(dpi) % 256

\* x << 8 | y on two bytes read from the buffer, undefined counting as 0.
ByteOrZero(b) == IF b = Undefined THEN 0 ELSE b

\* A variant that takes the declared length to count the marker's two bytes.
segmentLengthWithMarker(data, at) ==
    ByteOrZero(At(data, at + 2)) * 256 + ByteOrZero(At(data, at + 3)) - 2
segmentLength(data, at) ==
    ByteOrZero(At(data, at + 2)) * 256 + ByteOrZero(At(data, at + 3))

\* The test of the scan for 'JFIF\0' in the segment at `at`.
hasJfifSignature(data, at) ==
    /\ at + 9 < Len(data)
    /\ data[at + 5] = 74
    /\ data[at + 6] = 70
    /\ data[at + 7] = 73
    /\ data[at + 8] = 70
    /\ data[at + 9] = 0

\* modifiedData[k] = v on a copy: a store outside the buffer is ignored.
Store(data, k, v) == IF k >= 0 /\ k < Len(data) THEN [data EXCEPT ![k + 1] = v] ELSE data

\* The five stores into the copy of the input.
patchJfif(data, at, dpi) ==
    Store(Store(Store(Store(Store(data,
        at + 11, 1),
        at + 12, dpiHighByte(dpi)),
        at + 13, dpiLowByte(dpi)),
        at + 14, dpiHighByte(dpi)),
        at + 15, dpiLowByte(dpi))

jfifSegment(dpi) ==
    <<255, 224, 0, 16, 74, 70, 73, 70, 0, 1, 1, 1,
      dpiHighByte(dpi), dpiLowByte(dpi), dpiHighByte(dpi), dpiLowByte(dpi), 0, 0>>

\* A variant that copies the rest of the input from offset 0, not 2.
insertJfifKeepingSoiTwice(data, dpi) ==
    Slice(data, 0, 2) \o jfifSegment(dpi) \o Slice(data, 0, Len(data))

\* The new buffer: SOI, the new segment, the rest of the input.
insertJfif(data, dpi) ==
    Slice(data, 0, 2) \o jfifSegment(dpi) \o Slice(data, 2, Len(data))

----------------------------------------------------------------------------
(* _rgbaToRgb and _hasTransparency *)

\* A variant that rounds the blend down.
blendChannelFloor(src, a) ==
    IF src = Undefined \/ a = Undefined THEN 0
    ELSE ((src * a + 255 * (255 - a)) \div 255) % 256

\* The byte stored by rgbData[j] = Math.round(src * alpha + 255 * (1 - alpha))
\* with alpha = a / 255.  The exact value is (src * a + 255 * (255 - a)) / 255,
\* a multiple of 1/255, so it is never closer than 1/510 to a rounding tie
\* and the double arithmetic of the code rounds to the same integer.  A
\* missing operand makes the sum NaN, which is stored as 0.
blendChannel(src, a) ==
    IF src = Undefined \/ a = Undefined THEN 0
    ELSE MathRound(src * a + 255 * (255 - a), 255) % 256

\* The value stored for channel c of the pixel at byte offset i: the source
\* channel itself when alpha === 1, the blend otherwise.
pixelChannel(data, i, c) ==
    IF At(data, i + 3) = 255
    THEN ByteOrZero(At(data, i + c))
    ELSE blendChannel(At(data, i + c), At(data, i + 3))

\* for (let i = 0, j = 0; i < rgbaData.length; i += 4, j += 3): the loop
\* state is the record [i, j, rgbData].
RECURSIVE rgbLoop(_, _)
rgbLoop(st, data) ==
    IF st.i >= Len(data) THEN st.rgbData
    ELSE rgbLoop(
            [i |-> st.i + 4,
             j |-> st.j + 3,
             rgbData |-> Store(Store(Store(st.rgbData,
                            st.j, pixelChannel(data, st.i, 0)),
                            st.j + 1, pixelChannel(data, st.i, 1)),
                            st.j + 2, pixelChannel(data, st.i, 2))],
            data)

\* new Uint8Array(n): n zero bytes.
Zeros(n) == [k \in 1..n |-> 0]

rgbaToRgb(data, preserve) ==
    IF preserve
    THEN data
    ELSE rgbLoop([i |-> 0, j |-> 0, rgbData |-> Zeros((Len(data) * 3) \div 4)], data)

\* for (let i = 3; i < rgbaData.length; i += 4) if (rgbaData[i] < 255) return true
hasTransparency(data) ==
    \E k \in 0..(Len(data) - 1) : k % 4 = 3 /\ data[k + 1] < 255

----------------------------------------------------------------------------
(* formatDateTime, pako.deflate *)

\* String(n).padStart(2, '0') as character codes, for 0 <= n.
PadStart2(n) ==
    IF n < 10 THEN <<48, 48 + n>>
    ELSE IF n < 100 THEN <<48 + (n \div 10), 48 + (n % 10)>>
    ELSE <<48 + (n \div 100), 48 + ((n \div 10) % 10), 48 + (n % 10)>>

\* `${Y}` for a year of four digits.
YearText(y) ==
    <<48 + (y \div 1000), 48 + ((y \div 100) % 10), 48 + ((y \div 10) % 10), 48 + (y % 10)>>

\* "YYYY:MM:DD HH:MM:SS" for the date [Y, M, D, h, m, s] (M is getMonth() + 1).
formatDateTime(date) ==
    YearText(date.Y) \o <<58>> \o PadStart2(date.M) \o <<58>> \o PadStart2(date.D)
        \o <<32>> \o PadStart2(date.h) \o <<58>> \o PadStart2(date.m)
        \o <<58>> \o PadStart2(date.s)

\* The Adler-32 sums of a zlib stream: the loop state is [i, a, b].
RECURSIVE adlerLoop(_, _)
adlerLoop(st, data) ==
    IF st.i >= Len(data) THEN st
    ELSE adlerLoop([i |-> st.i + 1,
                    a |-> (st.a + data[st.i + 1]) % 65521,
                    b |-> (st.b + st.a + data[st.i + 1]) % 65521], data)

\* pako.deflate(pixelData) is library code; what the writer relies on is that
\* it returns a zlib stream for pixelData.  Here it is the stream with one
\* stored block: header 78 01, block header 01 LEN NLEN, the data, Adler-32.
deflate(data) ==
    LET sums == adlerLoop([i |-> 0, a |-> 1, b |-> 0], data)
        n == Len(data)
    IN  <<120, 1, 1, n % 256, n \div 256, 255 - (n % 256), 255 - (n \div 256)>>
            \o data \o BigEndian16(sums.b) \o BigEndian16(sums.a)

----------------------------------------------------------------------------
(* _createTiffTagEntries *)

TIFF_TYPES == [ASCII |-> 2, SHORT |-> 3, LONG |-> 4, RATIONAL |-> 5]

\* The tag codes of piexif.ImageIFD the writer uses.
ImageIFD ==
    [ImageWidth |-> 256, ImageLength |-> 257, BitsPerSample |-> 258,
     Compression |-> 259, PhotometricInterpretation |-> 262,
     StripOffsets |-> 273, SamplesPerPixel |-> 277, StripByteCounts |-> 279,
     XResolution |-> 282, YResolution |-> 283, ResolutionUnit |-> 296,
     Software |-> 305, DateTime |-> 306]

\* CONFIG.SOFTWARE_NAME, 'ImageConverter.js'
SOFTWARE_NAME ==
    <<73, 109, 97, 103, 101, 67, 111, 110, 118, 101, 114, 116, 101, 114, 46, 106, 115>>

\* The value of a tag entry: a number, an array of numbers or a string (its
\* character codes).
NumberValue(x) == [kind |-> "number", num |-> x, items |-> <<>>]
ArrayValue(xs) == [kind |-> "array", num |-> NaN, items |-> xs]
StringValue(cs) == [kind |-> "string", num |-> NaN, items |-> cs]

Entry(tag, type, count, value) ==
    [tag |-> tag, type |-> type, count |-> count, value |-> value]

\* A variant that makes the ExtraSamples entry whatever the flag.
createTiffTagEntriesAlwaysExtra(width, height, dpi, compressedDataLength, transparency, now) ==
    LET samplesPerPixel == IF transparency THEN 4 ELSE 3
        bitsPerSample == IF transparency THEN <<Num(8), Num(8), Num(8), Num(8)>>
                         ELSE <<Num(8), Num(8), Num(8)>>
    IN  <<Entry(ImageIFD.ImageWidth, TIFF_TYPES.LONG, 1, NumberValue(Num(width))),
          Entry(ImageIFD.ImageLength, TIFF_TYPES.LONG, 1, NumberValue(Num(height))),
          Entry(ImageIFD.BitsPerSample, TIFF_TYPES.SHORT, samplesPerPixel,
                ArrayValue(bitsPerSample)),
          Entry(ImageIFD.Compression, TIFF_TYPES.SHORT, 1, NumberValue(Num(8))),
          Entry(ImageIFD.PhotometricInterpretation, TIFF_TYPES.SHORT, 1,
                NumberValue(Num(2))),
          Entry(ImageIFD.StripOffsets, TIFF_TYPES.LONG, 1, NumberValue(Num(0))),
          Entry(ImageIFD.SamplesPerPixel, TIFF_TYPES.SHORT, 1,
                NumberValue(Num(samplesPerPixel))),
          Entry(ImageIFD.StripByteCounts, TIFF_TYPES.LONG, 1,
                NumberValue(Num(compressedDataLength))),
          Entry(ImageIFD.XResolution, TIFF_TYPES.RATIONAL, 1, ArrayValue(<<dpi, Num(1)>>)),
          Entry(ImageIFD.YResolution, TIFF_TYPES.RATIONAL, 1, ArrayValue(<<dpi, Num(1)>>)),
          Entry(ImageIFD.ResolutionUnit, TIFF_TYPES.SHORT, 1, NumberValue(Num(2))),
          Entry(ImageIFD.Software, TIFF_TYPES.ASCII, 0, StringValue(SOFTWARE_NAME)),
          Entry(ImageIFD.DateTime, TIFF_TYPES.ASCII, 0, StringValue(formatDateTime(now))),
          Entry(338, TIFF_TYPES.SHORT, 1, NumberValue(Num(1)))>>

\* `now` is the date new Date() gives inside formatDateTime().
createTiffTagEntries(width, height, dpi, compressedDataLength, transparency, now) ==
    LET samplesPerPixel == IF transparency THEN 4 ELSE 3
        bitsPerSample == IF transparency THEN <<Num(8), Num(8), Num(8), Num(8)>>
                         ELSE <<Num(8), Num(8), Num(8)>>
        tags ==
            <<Entry(ImageIFD.ImageWidth, TIFF_TYPES.LONG, 1, NumberValue(Num(width))),
              Entry(ImageIFD.ImageLength, TIFF_TYPES.LONG, 1, NumberValue(Num(height))),
              Entry(ImageIFD.BitsPerSample, TIFF_TYPES.SHORT, samplesPerPixel,
                    ArrayValue(bitsPerSample)),
              Entry(ImageIFD.Compression, TIFF_TYPES.SHORT, 1, NumberValue(Num(8))),
              Entry(ImageIFD.PhotometricInterpretation, TIFF_TYPES.SHORT, 1,
                    NumberValue(Num(2))),
              Entry(ImageIFD.StripOffsets, TIFF_TYPES.LONG, 1, NumberValue(Num(0))),
              Entry(ImageIFD.SamplesPerPixel, TIFF_TYPES.SHORT, 1,
                    NumberValue(Num(samplesPerPixel))),
              Entry(ImageIFD.StripByteCounts, TIFF_TYPES.LONG, 1,
                    NumberValue(Num(compressedDataLength))),
              Entry(ImageIFD.XResolution, TIFF_TYPES.RATIONAL, 1,
                    ArrayValue(<<dpi, Num(1)>>)),
              Entry(ImageIFD.YResolution, TIFF_TYPES.RATIONAL, 1,
                    ArrayValue(<<dpi, Num(1)>>)),
              Entry(ImageIFD.ResolutionUnit, TIFF_TYPES.SHORT, 1, NumberValue(Num(2))),
              Entry(ImageIFD.Software, TIFF_TYPES.ASCII, 0, StringValue(SOFTWARE_NAME)),
              Entry(ImageIFD.DateTime, TIFF_TYPES.ASCII, 0,
                    StringValue(formatDateTime(now)))>>
    IN  IF transparency
        THEN Append(tags, Entry(338, TIFF_TYPES.SHORT, 1, NumberValue(Num(1))))
        ELSE tags

----------------------------------------------------------------------------
(* _buildTiffBuffer *)

\* ToNumber of a tag value.  An array converts through its string: [] is 0,
\* [x] is x, a longer one is NaN.  Every string that reaches a write has had
\* '\0' appended, and such a string is NaN.
ToNumber(value) ==
    IF value.kind = "number" THEN value.num
    ELSE IF value.kind = "array"
         THEN IF Len(value.items) = 0 THEN Num(0)
              ELSE IF Len(value.items) = 1 THEN value.items[1]
              ELSE NaN
         ELSE NaN

\* The bytes DataView.setUint16 / setUint32 store for a number, big-endian.
Uint16Bytes(x) == BigEndian16(Trunc(x) % 65536)
Uint32Bytes(x) == BigEndian32(Word(Trunc(x)))

\* { SHORT: 2, LONG: 4, RATIONAL: 8, ASCII: 1 }[tag.type] * tag.count
valueByteLength(tag) ==
    (IF tag.type = TIFF_TYPES.SHORT THEN 2
     ELSE IF tag.type = TIFF_TYPES.LONG THEN 4
     ELSE IF tag.type = TIFF_TYPES.RATIONAL THEN 8
     ELSE 1) * tag.count

\* A variant that leaves the next block where the last one ended.
keepOffset(next) == next

\* Lines 612-614: the offset of the next block, rounded up to an even number.
roundUpToEven(next) == IF next % 2 # 0 THEN next + 1 ELSE next

\* The first loop: st is [k, tags, dataBlocks, dataBlockOffset], k entries done.
RECURSIVE layoutLoop(_)
layoutLoop(st) ==
    IF st.k >= Len(st.tags) THEN st
    ELSE LET t0 == st.tags[st.k + 1]
             tag == IF t0.type = TIFF_TYPES.ASCII
                    THEN [t0 EXCEPT !.value = StringValue(t0.value.items \o <<0>>),
                                    !.count = Len(t0.value.items) + 1]
                    ELSE t0
             length == valueByteLength(tag)
             next == st.dataBlockOffset + length
         IN  IF length > 4
             THEN layoutLoop(
                    [k |-> st.k + 1,
                     tags |-> [st.tags EXCEPT ![st.k + 1] =
                                 [tag EXCEPT !.value = NumberValue(Num(st.dataBlockOffset))]],
                     dataBlocks |-> Append(st.dataBlocks,
                                     [offset |-> st.dataBlockOffset, data |-> tag.value,
                                      type |-> tag.type]),
                     dataBlockOffset |-> roundUpToEven(next)])
             ELSE layoutLoop([k |-> st.k + 1,
                              tags |-> [st.tags EXCEPT ![st.k + 1] = tag],
                              dataBlocks |-> st.dataBlocks,
                              dataBlockOffset |-> st.dataBlockOffset])

\* The index of the first StripOffsets entry, 0 when tags.find gives undefined.
findStripOffsets(tags) ==
    IF \E k \in 1..Len(tags) : tags[k].tag = ImageIFD.StripOffsets
    THEN CHOOSE k \in 1..Len(tags) :
            /\ tags[k].tag = ImageIFD.StripOffsets
            /\ \A j \in 1..(k - 1) : tags[j].tag # ImageIFD.StripOffsets
    ELSE 0

\* A write through the DataView: w is [view, bufferOffset, ok]; a write that
\* does not fit in the buffer is a RangeError, which ends the build (ok FALSE).
write(w, bytes) ==
    IF ~w.ok \/ w.bufferOffset + Len(bytes) > Len(w.view)
    THEN [view |-> w.view, bufferOffset |-> w.bufferOffset, ok |-> FALSE]
    ELSE [view |-> SubSeq(w.view, 1, w.bufferOffset) \o bytes
                     \o SubSeq(w.view, w.bufferOffset + Len(bytes) + 1, Len(w.view)),
          bufferOffset |-> w.bufferOffset + Len(bytes),
          ok |-> TRUE]

write16(w, x) == write(w, Uint16Bytes(x))
write32(w, x) == write(w, Uint32Bytes(x))

\* for (let i = valueByteLength; i < 4; i++) view.setUint8(bufferOffset++, 0)
padding(length) == IF length < 4 THEN [k \in 1..(4 - length) |-> 0] ELSE <<>>

\* The value field of one entry, lines 636 to 644.
writeValueField(w, tag) ==
    LET length == valueByteLength(tag)
    IN  IF length <= 4
        THEN LET written ==
                    IF tag.type = TIFF_TYPES.SHORT THEN write16(w, ToNumber(tag.value))
                    ELSE IF tag.type = TIFF_TYPES.LONG THEN write32(w, ToNumber(tag.value))
                    ELSE write32(w, IF tag.value.kind = "array"
                                    THEN IF Len(tag.value.items) > 0
                                         THEN tag.value.items[1] ELSE NaN
                                    ELSE ToNumber(tag.value))
             IN  write(written, padding(length))
        ELSE write32(w, ToNumber(tag.value))

\* The entry loop: st is [k, w].
RECURSIVE entryLoop(_, _)
entryLoop(st, tags) ==
    IF st.k >= Len(tags) \/ ~st.w.ok THEN st
    ELSE LET tag == tags[st.k + 1]
             head == write(st.w, BigEndian16(tag.tag) \o BigEndian16(tag.type)
                                   \o BigEndian32(Word(tag.count)))
         IN  entryLoop([k |-> st.k + 1, w |-> writeValueField(head, tag)], tags)

\* block.data[i] as a number: a missing item is undefined, which is NaN.
dataItem(data, i) == IF i <= Len(data.items) THEN data.items[i] ELSE NaN

\* The SHORT items of a block, written one after another: st is [i, w].
RECURSIVE shortLoop(_, _)
shortLoop(st, items) ==
    IF st.i >= Len(items) \/ ~st.w.ok THEN st
    ELSE shortLoop([i |-> st.i + 1, w |-> write16(st.w, items[st.i + 1])], items)

\* One data block, lines 649 to 657.
writeBlock(w, block) ==
    LET at == [view |-> w.view, bufferOffset |-> block.offset, ok |-> w.ok]
    IN  IF block.type = TIFF_TYPES.RATIONAL
        THEN write32(write32(at, dataItem(block.data, 1)), dataItem(block.data, 2))
        ELSE IF block.type = TIFF_TYPES.SHORT
        THEN shortLoop([i |-> 0, w |-> at], block.data.items).w
        ELSE IF block.type = TIFF_TYPES.ASCII
        THEN write(at, block.data.items)
        ELSE at

\* The block loop: st is [k, w].
RECURSIVE blockLoop(_, _)
blockLoop(st, dataBlocks) ==
    IF st.k >= Len(dataBlocks) \/ ~st.w.ok THEN st
    ELSE blockLoop([k |-> st.k + 1, w |-> writeBlock(st.w, dataBlocks[st.k + 1])],
                   dataBlocks)

\* The result is Return(bytes of the file) or Throw(the error's name).
buildTiffBuffer(tags, compressedData) ==
    LET layout == layoutLoop([k |-> 0, tags |-> tags, dataBlocks |-> <<>>,
                              dataBlockOffset |-> 8 + 2 + (Len(tags) * 12) + 4])
        imageDataOffset == layout.dataBlockOffset
        strip == findStripOffsets(layout.tags)
        placed == [layout.tags EXCEPT ![strip] =
                      [@ EXCEPT !.value = NumberValue(Num(imageDataOffset))]]
        fileLength == imageDataOffset + Len(compressedData)
        header == write([view |-> Zeros(fileLength), bufferOffset |-> 0, ok |-> TRUE],
                        <<77, 77>> \o BigEndian16(42) \o BigEndian32(Word(8))
                            \o BigEndian16(Len(tags)))
        entries == entryLoop([k |-> 0, w |-> header], placed).w
        ifd == write32(entries, Num(0))
        blocks == blockLoop([k |-> 0, w |-> ifd], layout.dataBlocks).w
    IN  IF strip = 0 THEN Throw("TypeError")
        ELSE IF ~blocks.ok THEN Throw("RangeError")
        ELSE Return(SubSeq(blocks.view, 1, imageDataOffset) \o compressedData)

\* The entries of `tags` once the call is over: the first loop has appended
\* the NUL and set the counts and offsets, line 617 the strip offset.
tagsAfterBuild(tags) ==
    LET layout == layoutLoop([k |-> 0, tags |-> tags, dataBlocks |-> <<>>,
                              dataBlockOffset |-> 8 + 2 + (Len(tags) * 12) + 4])
        strip == findStripOffsets(layout.tags)
    IN  IF strip = 0 THEN layout.tags
        ELSE [layout.tags EXCEPT ![strip] =
                [@ EXCEPT !.value = NumberValue(Num(layout.dataBlockOffset))]]

----------------------------------------------------------------------------
(* canvasToTiff *)

\* A variant that keeps the alpha channel whenever the flag is set.
tiffHasTransparencyFlagOnly(cv, flag) == flag

\* const hasTransparency = transparentBackground && this._hasTransparency(rgbaData)
tiffHasTransparency(cv, flag) == flag /\ hasTransparency(cv.data)

tiffPixelData(cv, flag) == rgbaToRgb(cv.data, tiffHasTransparency(cv, flag))

tiffCompressedData(cv, flag) == deflate(tiffPixelData(cv, flag))

\* A variant that records the length of the pixel data before compression.
canvasToTiffTagsRawLength(cv, dpi, flag, date) ==
    createTiffTagEntries(cv.width, cv.height, dpi, Len(tiffPixelData(cv, flag)),
                         tiffHasTransparency(cv, flag), date)

\* The tags canvasToTiff hands to _buildTiffBuffer.
canvasToTiffTags(cv, dpi, flag, date) ==
    createTiffTagEntries(cv.width, cv.height, dpi, Len(tiffCompressedData(cv, flag)),
                         tiffHasTransparency(cv, flag), date)

----------------------------------------------------------------------------
(* _validateInputs *)

\* A JavaScript value as an argument of convertSvg: its type (typeof, with
\* null told apart from the objects), and its number or its characters when
\* it is a number or a string.
Number(x) == [type |-> "number", num |-> x, text |-> <<>>]
String(cs) == [type |-> "string", num |-> NaN, text |-> cs]
Other(type) == [type |-> type, num |-> NaN, text |-> <<>>]

\* a < b and a <= b on numbers: false when either is NaN.
Less(a, b) == a.d > 0 /\ b.d > 0 /\ a.n * b.d < b.n * a.d
LessEq(a, b) == a.d > 0 /\ b.d > 0 /\ a.n * b.d <= b.n * a.d

\* A parameter's default value replaces undefined.
Default(v, d) == IF v.type = "undefined" THEN d ELSE v

DEFAULT_DPI == Number(Num(72))
JPEG_QUALITY == Number(Num(1))

\* String.prototype.toLowerCase on character codes.
toLowerCase(cs) == [k \in 1..Len(cs) |-> IF cs[k] >= 65 /\ cs[k] <= 90 THEN cs[k] + 32 ELSE cs[k]]

\* 'png', 'jpg', 'jpeg', 'tiff', 'tif'
supportedFormats ==
    {<<112, 110, 103>>, <<106, 112, 103>>, <<106, 112, 101, 103>>,
     <<116, 105, 102, 102>>, <<116, 105, 102>>}

\* An SVG argument is [type, text, parsererror, root]: what DOMParser makes of
\* it is given with it (whether the document holds a parsererror element and
\* the tag name of its root).
isValidSvg(svg) ==
    IF svg.type # "string" \/ Len(svg.text) = 0 THEN FALSE
    ELSE ~svg.parsererror /\ svg.root = "svg"

\* typeof dpi !== 'number' || dpi <= 0 || dpi > 2400
dpiRejected(dpi) ==
    dpi.type # "number" \/ LessEq(dpi.num, Num(0)) \/ Less(Num(2400), dpi.num)

\* typeof quality !== 'number' || quality < 0 || quality > 1
qualityRejected(quality) ==
    quality.type # "number" \/ Less(quality.num, Num(0)) \/ Less(Num(1), quality.num)

\* A variant that checks the quality before the DPI.
validateInputsQualityFirst(svg, format, dpi, quality) ==
    IF ~isValidSvg(svg) THEN Throw("InvalidSvg")
    ELSE IF format.type \notin {"string", "undefined", "null"} THEN Throw("TypeError")
    ELSE IF format.type # "string" \/ toLowerCase(format.text) \notin supportedFormats
    THEN Throw("UnsupportedFormat")
    ELSE IF qualityRejected(quality) THEN Throw("InvalidQuality")
    ELSE IF dpiRejected(dpi) THEN Throw("InvalidDpi")
    ELSE Return(<<>>)

\* The completion of _validateInputs; the error is named as the spec names
\* it.  format?.toLowerCase() is undefined for null and undefined, and a
\* TypeError for any other value that is not a string.
validateInputs(svg, format, dpi, quality) ==
    IF ~isValidSvg(svg) THEN Throw("InvalidSvg")
    ELSE IF format.type \notin {"string", "undefined", "null"} THEN Throw("TypeError")
    ELSE IF format.type # "string" \/ toLowerCase(format.text) \notin supportedFormats
    THEN Throw("UnsupportedFormat")
    ELSE IF dpiRejected(dpi) THEN Throw("InvalidDpi")
    ELSE IF qualityRejected(quality) THEN Throw("InvalidQuality")
    ELSE Return(<<>>)

----------------------------------------------------------------------------
(* getSvgDimensions *)

\* The characters \s matches among those used here: tab, LF, VT, FF, CR, space.
IsWhitespace(c) == c \in {9, 10, 11, 12, 13, 32}
IsDigit(c) == c >= 48 /\ c <= 57

\* The length of the longest run of whitespace (of digits) that starts at
\* index p of cs (indices from 1).
WhitespaceRun(cs, p) ==
    CHOOSE k \in 0..(Len(cs) - p + 1) :
        /\ \A i \in p..(p + k - 1) : IsWhitespace(cs[i])
        /\ (p + k > Len(cs) \/ ~IsWhitespace(cs[p + k]))
DigitRun(cs, p) ==
    CHOOSE k \in 0..(Len(cs) - p + 1) :
        /\ \A i \in p..(p + k - 1) : IsDigit(cs[i])
        /\ (p + k > Len(cs) \/ ~IsDigit(cs[p + k]))

\* The value of the decimal digits cs[p .. p + k - 1]: the state is [i, v].
RECURSIVE digitsLoop(_, _, _)
digitsLoop(st, cs, last) ==
    IF st.i > last THEN st.v
    ELSE digitsLoop([i |-> st.i + 1, v |-> st.v * 10 + (cs[st.i] - 48)], cs, last)
DigitsValue(cs, p, k) == digitsLoop([i |-> p, v |-> 0], cs, p + k - 1)

\* parseFloat on a string of character codes: leading whitespace is skipped,
\* then the longest prefix sign? digits? (. digits?)? that holds a digit is
\* read and what follows is ignored; with no digit the result is NaN.
\* (Exponents and 'Infinity' are not among the strings used here.)
parseFloat(cs) ==
    LET start == 1 + WhitespaceRun(cs, 1)
        signed == start <= Len(cs) /\ cs[start] \in {43, 45}
        negative == signed /\ cs[start] = 45
        p == IF signed THEN start + 1 ELSE start
        intLen == DigitRun(cs, p)
        dotted == p + intLen <= Len(cs) /\ cs[p + intLen] = 46
        fracLen == IF dotted THEN DigitRun(cs, p + intLen + 1) ELSE 0
        magnitude == DigitsValue(cs, p, intLen) * (10 ^ fracLen)
                        + DigitsValue(cs, p + intLen + 1, fracLen)
    IN  IF intLen = 0 /\ fracLen = 0 THEN NaN
        ELSE [n |-> IF negative THEN 0 - magnitude ELSE magnitude, d |-> 10 ^ fracLen]

\* viewBox.split(/\s+|,/): at each index the pattern matches a run of
\* whitespace or else one comma.  The state is [p, start, tokens]: p the
\* index looked at, start the index where the current token began.
RECURSIVE splitLoop(_, _)
splitLoop(st, cs) ==
    IF st.p > Len(cs) THEN Append(st.tokens, SubSeq(cs, st.start, Len(cs)))
    ELSE IF IsWhitespace(cs[st.p])
    THEN LET k == WhitespaceRun(cs, st.p)
         IN  splitLoop([p |-> st.p + k, start |-> st.p + k,
                        tokens |-> Append(st.tokens, SubSeq(cs, st.start, st.p - 1))], cs)
    ELSE IF cs[st.p] = 44
    THEN splitLoop([p |-> st.p + 1, start |-> st.p + 1,
                    tokens |-> Append(st.tokens, SubSeq(cs, st.start, st.p - 1))], cs)
    ELSE splitLoop([p |-> st.p + 1, start |-> st.start, tokens |-> st.tokens], cs)

split(cs) == splitLoop([p |-> 1, start |-> 1, tokens |-> <<>>], cs)

\* An attribute is [null, text]: getAttribute gives null when it is absent.
Attr(cs) == [null |-> FALSE, text |-> cs]
NoAttr == [null |-> TRUE, text |-> <<>>]

\* A string or null used as a condition, a number used as a condition.
Truthy(attr) == ~attr.null /\ Len(attr.text) > 0
TruthyNumber(x) == x.d > 0 /\ x.n # 0

\* The dimensions found, or null.
Dimensions(w, h) == [null |-> FALSE, width |-> w, height |-> h]
NoDimensions == [null |-> TRUE, width |-> NaN, height |-> NaN]

\* [, , vbWidth, vbHeight] = tokens.map(parseFloat): a missing item is undefined.
tokenNumber(tokens, i) == IF i <= Len(tokens) THEN parseFloat(tokens[i]) ELSE NaN

\* The document is what DOMParser makes of svgString: the tag name of its
\* root and the root's width, height and viewBox attributes.
getSvgDimensions(svg) ==
    IF svg.root # "svg" THEN NoDimensions
    ELSE IF Truthy(svg.width) /\ Truthy(svg.height)
    THEN Dimensions(parseFloat(svg.width.text), parseFloat(svg.height.text))
    ELSE IF Truthy(svg.viewBox)
    THEN LET tokens == split(svg.viewBox.text)
             vbWidth == tokenNumber(tokens, 3)
             vbHeight == tokenNumber(tokens, 4)
         IN  IF TruthyNumber(vbWidth) /\ TruthyNumber(vbHeight)
             THEN Dimensions(vbWidth, vbHeight)
             ELSE NoDimensions
    ELSE NoDimensions

----------------------------------------------------------------------------
(* _setJfifDpi as a function of its arguments *)

\* A variant of the SOI test that looks at the first byte only.
missingSoiFirstByteOnly(data) == At(data, 0) # 255

\* jpegData[0] !== 0xFF || jpegData[1] !== 0xD8
missingSoi(data) == At(data, 0) # 255 \/ At(data, 1) # 216

\* The while loop of the APPn scan: the state is [offset, jfifMarkerIndex],
\* the result the value of jfifMarkerIndex when the loop is left.
RECURSIVE scanLoop(_, _)
scanLoop(st, data) ==
    IF ~(st.offset < Len(data) - 1) THEN st.jfifMarkerIndex
    ELSE IF At(data, st.offset) # 255 THEN st.jfifMarkerIndex
    ELSE IF ~(At(data, st.offset + 1) >= 224 /\ At(data, st.offset + 1) <= 239)
    THEN st.jfifMarkerIndex
    ELSE IF hasJfifSignature(data, st.offset) THEN st.offset
    ELSE scanLoop([offset |-> st.offset + 2 + segmentLength(data, st.offset),
                   jfifMarkerIndex |-> st.jfifMarkerIndex], data)

setJfifDpi(data, dpi) ==
    IF missingSoi(data) THEN data
    ELSE LET found == scanLoop([offset |-> 2, jfifMarkerIndex |-> -1], data)
         IN  IF found # -1 THEN patchJfif(data, found, dpi) ELSE insertJfif(data, dpi)

----------------------------------------------------------------------------
(* The stages on buffers held by reference: the heap is the sequence of the *)
(* buffers allocated, a reference an index into it.                         *)

\* new Uint8Array(length) and new Uint8Array([...]): a buffer of its own.
NewUint8Array(h, bytes) == [heap |-> Append(h, bytes), ref |-> Len(h) + 1]

\* A variant of new Uint8Array(typedArray) that gives the argument itself.
sameUint8Array(h, ref) == [heap |-> h, ref |-> ref]

\* new Uint8Array(typedArray): a new buffer holding a copy of the elements.
newUint8ArrayFrom(h, ref) == NewUint8Array(h, h[ref])

\* buffer[k] = v on the buffer a reference names.
StoreAt(h, ref, k, v) == [h EXCEPT ![ref] = Store(h[ref], k, v)]

\* _rgbaToRgb: the copy, or the loop storing into rgbData.
rgbaToRgbOnHeap(h, ref, preserve) ==
    IF preserve THEN newUint8ArrayFrom(h, ref)
    ELSE LET rgbData == NewUint8Array(h, Zeros((Len(h[ref]) * 3) \div 4))
         IN  [heap |-> [rgbData.heap EXCEPT ![rgbData.ref] =
                            rgbLoop([i |-> 0, j |-> 0, rgbData |-> rgbData.heap[rgbData.ref]],
                                    rgbData.heap[ref])],
              ref |-> rgbData.ref]

\* _addPngDpiChunk: `result` is a new buffer filled from slices (copies) of
\* pngData; reference 0 stands for no buffer returned (the throw).
addPngDpiChunkOnHeap(h, ref, dpi) ==
    IF addPngDpiChunk(h[ref], dpi).kind = "throw" THEN [heap |-> h, ref |-> 0]
    ELSE NewUint8Array(h, addPngDpiChunk(h[ref], dpi).value)

\* _setJfifDpi: the argument itself without SOI; else the five stores into
\* modifiedData, or newData.
setJfifDpiOnHeap(h, ref, dpi) ==
    IF missingSoi(h[ref]) THEN [heap |-> h, ref |-> ref]
    ELSE LET found == scanLoop([offset |-> 2, jfifMarkerIndex |-> -1], h[ref])
             modifiedData == newUint8ArrayFrom(h, ref)
             m == modifiedData.ref
         IN  IF found # -1
             THEN [heap |-> StoreAt(StoreAt(StoreAt(StoreAt(StoreAt(modifiedData.heap,
                                m, found + 11, 1),
                                m, found + 12, dpiHighByte(dpi)),
                                m, found + 13, dpiLowByte(dpi)),
                                m, found + 14, dpiHighByte(dpi)),
                                m, found + 15, dpiLowByte(dpi)),
                   ref |-> m]
             ELSE NewUint8Array(modifiedData.heap, insertJfif(modifiedData.heap[ref], dpi))

----------------------------------------------------------------------------
(* svgToCanvas *)

\* A variant that rounds the scaled size down.
roundScaledDown(declared, dpi) ==
    IF IsNaN(declared) \/ IsNaN(dpi) THEN NaN
    ELSE Num((declared.n * dpi.n) \div (declared.d * dpi.d * 72))

\* Math.round(declared * (dpi / 72)); NaN when an operand is NaN.
roundScaled(declared, dpi) ==
    IF IsNaN(declared) \/ IsNaN(dpi) THEN NaN
    ELSE Num(MathRound(declared.n * dpi.n, declared.d * dpi.d * 72))

\* canvas.width = v (fallback 300) and canvas.height = v (fallback 150): the
\* attribute is an unsigned long, so NaN is stored as 0, and a value that as
\* an unsigned 32-bit number is above 2147483647 (every negative one here)
\* is replaced by the attribute's default.
canvasDimension(v, fallback) ==
    IF IsNaN(v) THEN 0
    ELSE IF Trunc(v) < 0 THEN fallback
    ELSE Trunc(v)

\* getSvgDimensions(svgString) || { width: img.naturalWidth, height: img.naturalHeight }
resolveDimensions(svg, image) ==
    LET found == getSvgDimensions(svg)
    IN  IF found.null
        THEN Dimensions(Num(image.naturalWidth), Num(image.naturalHeight))
        ELSE found

\* The canvas svgToCanvas makes for the dimensions resolved: its context has
\* an alpha channel when the flag is set, and it is filled with white before
\* the image is drawn only when the flag is not set.
scaledCanvas(dims, dpi, flag) ==
    [width |-> canvasDimension(roundScaled(dims.width, dpi), 300),
     height |-> canvasDimension(roundScaled(dims.height, dpi), 150),
     alpha |-> flag,
     fill |-> IF flag THEN "none" ELSE "white"]

\* Whether the browser can load the document as an image.
Renders(svg) == svg.type = "string" /\ ~svg.parsererror /\ svg.root = "svg"

----------------------------------------------------------------------------
(* convertSvg, canvasToPng, canvasToJpeg *)

\* A variant that drops the message of the error caught.
WrappedWithoutMessage(format, message) ==
    [kind |-> "throw", value |-> format.text, error |-> "conversion failed"]

\* `SVG to ${format} conversion failed: ${error.message}`: the rejection
\* carries the format as given and the message of the error caught.
Wrapped(format, message) == [kind |-> "throw", value |-> format.text, error |-> message]

\* What canvasToPng returns once the blob's bytes are read: the bytes with
\* the pHYs chunk, or the blob itself when _addPngDpiChunk (or the read, when
\* `readable` is false) has thrown.
pngWithDpi(data, dpi, readable) ==
    IF readable /\ addPngDpiChunk(data, dpi).kind = "return"
    THEN addPngDpiChunk(data, dpi).value
    ELSE data

\* The labels at which an async function is suspended in an await.
suspendsAnywhere(label) == TRUE

suspends(label) ==
    label \in {"raster_await", "raster_done", "png_toblob", "png_arraybuffer",
               "jpeg_fetch", "jpeg_arraybuffer", "jpeg_fallback", "enc_await"}

----------------------------------------------------------------------------
(* SvgConverter and FileUpload *)

\* The empty string: the initial svgContent.
EmptyText ==
    [type |-> "string", text |-> <<>>, parsererror |-> TRUE, root |-> "parsererror",
     width |-> NoAttr, height |-> NoAttr, viewBox |-> NoAttr]

\* !svgContent
IsEmpty(content) == Len(content.text) = 0

\* A variant that leaves the background flag as it is.
handleFormatChangeKeepsFlag(format, flag) ==
    [outputFormat |-> format, transparentBackground |-> flag]

\* handleFormatChange: the states it sets, from the format chosen and the
\* flag of the render.
handleFormatChange(format, flag) ==
    [outputFormat |-> format,
     transparentBackground |-> IF format = "jpeg" THEN FALSE ELSE flag]

\* name.replace('.svg', ''): the first occurrence is taken out.
replaceSvg(name) ==
    LET found == {i \in 1..(Len(name) - 3) : SubSeq(name, i, i + 3) = <<46, 115, 118, 103>>}
    IN  IF found = {} THEN name
        ELSE LET first == CHOOSE i \in found : \A j \in found : i <= j
             IN  SubSeq(name, 1, first - 1) \o SubSeq(name, first + 4, Len(name))

\* outputFormat === 'jpeg' ? 'jpg' : outputFormat
extension(format) ==
    IF format = "jpeg" THEN <<106, 112, 103>>
    ELSE IF format = "png" THEN <<112, 110, 103>>
    ELSE <<116, 105, 102, 102>>

\* `${filename}.${extension}`
downloadName(name, format) == replaceSvg(name) \o <<46>> \o extension(format)

----------------------------------------------------------------------------
(* Inputs *)

\* The files the user can pick: two SVG documents, a file of type
\* image/svg+xml that is not SVG, and a PNG image.
UiFiles == {"a.svg", "b.svg", "notes.svg", "c.png"}
FileName(f) ==
    IF f = "a.svg" THEN <<97, 46, 115, 118, 103>>
    ELSE IF f = "b.svg" THEN <<98, 46, 115, 118, 103>>
    ELSE IF f = "notes.svg" THEN <<110, 46, 115, 118, 103>>
    ELSE <<99, 46, 112, 110, 103>>
FileType(f) == IF f = "c.png" THEN "image/png" ELSE "image/svg+xml"
FileContent(f) ==
    IF f = "a.svg"
    THEN [type |-> "string", text |-> <<60, 115, 118, 103, 47, 62>>,
          parsererror |-> FALSE, root |-> "svg",
          width |-> NoAttr, height |-> NoAttr, viewBox |-> NoAttr]
    ELSE IF f = "b.svg"
    THEN [type |-> "string", text |-> <<60, 115, 118, 103, 32, 47, 62>>,
          parsererror |-> FALSE, root |-> "svg",
          width |-> NoAttr, height |-> NoAttr, viewBox |-> NoAttr]
    ELSE IF f = "notes.svg"
    THEN [type |-> "string", text |-> <<60, 112, 47, 62>>,
          parsererror |-> FALSE, root |-> "p",
          width |-> NoAttr, height |-> NoAttr, viewBox |-> NoAttr]
    ELSE [type |-> "string", text |-> <<137, 80, 78, 71>>,
          parsererror |-> TRUE, root |-> "parsererror",
          width |-> NoAttr, height |-> NoAttr, viewBox |-> NoAttr]

\* The radio buttons of the page.
UiFormats == {"png", "jpeg", "tiff"}
UiDpis == {72, 150, 300, 600}

\* Reset timers pending at once.
MaxTimers == 2

\* All sequences over S of length at most n.
RECURSIVE SeqsUpTo(_, _)
SeqsUpTo(S, n) ==
    IF n = 0 THEN {<<>>}
    ELSE LET shorter == SeqsUpTo(S, n - 1)
         IN  shorter \cup {Append(q, x) : q \in {r \in shorter : Len(r) = n - 1}, x \in S}

MaxCrcLen == 3
MaxPngTail == 2

\* The DPI values a caller passes on: the DPI selector's 72, 150 and 300, the
\* ends of the validated range, two fractional values (72.5 and 0.5) and NaN,
\* all of which _validateInputs lets through.
Dpis ==
    {Num(1), Num(72), Num(150), Num(300), Num(2400),
     [n |-> 145, d |-> 2], [n |-> 1, d |-> 2], NaN}

\* "123456789" and "IEND", whose CRC-32 values are published.
CheckString == <<49, 50, 51, 52, 53, 54, 55, 56, 57>>
IendText == <<73, 69, 78, 68>>

CrcInputs ==
    SeqsUpTo({0, 1, 128, 255}, MaxCrcLen)
        \cup {<<b>> : b \in Bytes}
        \cup {CheckString, IendText}

\* Signature, IHDR length, IHDR type and data (1 x 1, 8-bit RGBA), IHDR CRC.
IhdrBody == IhdrText \o <<0, 0, 0, 1, 0, 0, 0, 1, 8, 6, 0, 0, 0>>
PngHead ==
    <<137, 80, 78, 71, 13, 10, 26, 10>> \o <<0, 0, 0, 13>> \o IhdrBody
        \o BigEndian32(calculateCrc32(IhdrBody))

\* Encoder output, the same with one byte of the head zeroed (in the
\* signature at 0, 2 or 5, in the IHDR type at 13, in the IHDR data at 20),
\* and the head cut short.
PngInputs ==
    {PngHead \o t : t \in SeqsUpTo({0, 73, 255}, MaxPngTail)}
        \cup {[PngHead EXCEPT ![p + 1] = 0] \o t :
                p \in {0, 2, 5, 13, 20}, t \in SeqsUpTo({0, 73, 255}, MaxPngTail)}
        \cup {SubSeq(PngHead, 1, k) : k \in {0, 8, 32}}

MaxSegments == 2

\* Segments as an encoder or EXIF writer emits them, and broken ones: a JFIF
\* APP0 segment, an APP1 segment of declared length 4, an APP2 segment of
\* declared length 0, an APP1 segment whose declared length (64) runs past
\* the end of the buffer, and a quantization table (not an APPn segment).
JfifApp0 == <<255, 224, 0, 16, 74, 70, 73, 70, 0, 1, 1, 0, 0, 72, 0, 72, 0, 0>>
JpegSegments ==
    {JfifApp0,
     <<255, 225, 0, 4, 69, 120>>,
     <<255, 226, 0, 0>>,
     <<255, 225, 0, 64, 69, 120>>,
     <<255, 219, 0, 2>>}

RECURSIVE SegmentRuns(_)
SegmentRuns(n) ==
    IF n = 0 THEN {<<>>}
    ELSE LET shorter == SegmentRuns(n - 1)
         IN  shorter \cup {q \o g : q \in shorter, g \in JpegSegments}

Prefixes(q) == {SubSeq(q, 1, k) : k \in 0..Len(q)}

\* Every prefix of SOI followed by up to MaxSegments segments (a buffer may
\* end anywhere), and buffers that do not start with SOI.
JpegInputs ==
    UNION {Prefixes(<<255, 216>> \o q) : q \in SegmentRuns(MaxSegments)}
        \cup {h \o g : h \in {<<255, 217>>, <<0, 216>>}, g \in JpegSegments}

MaxPixels == 2

\* Pixels: four colours at six alpha values.
Pixels ==
    {rgb \o <<a>> :
        rgb \in {<<255, 0, 0>>, <<0, 128, 255>>, <<10, 200, 30>>, <<254, 1, 127>>},
        a \in {0, 1, 127, 128, 254, 255}}

\* The pixel data of images of up to n pixels.
RECURSIVE PixelRuns(_)
PixelRuns(n) ==
    IF n = 0 THEN {<<>>}
    ELSE LET shorter == PixelRuns(n - 1)
         IN  shorter \cup {q \o px : q \in {r \in shorter : Len(r) = 4 * (n - 1)}, px \in Pixels}

\* Buffers of up to MaxPixels pixels, and single pixels that sweep every
\* alpha value against sixteen source values.
RgbaInputs ==
    PixelRuns(MaxPixels)
        \cup {<<v, 255 - v, (7 * v) % 256, a>> :
                v \in {0, 1, 2, 3, 63, 64, 100, 127, 128, 129, 200, 251, 252, 253, 254, 255},
                a \in Bytes}

MaxTiffPixels == 2
MaxTags == 3

\* An opaque, a transparent and a half-transparent pixel.
TiffPixels == {<<255, 0, 0, 255>>, <<0, 128, 255, 0>>, <<10, 200, 30, 128>>}

RECURSIVE TiffPixelRuns(_)
TiffPixelRuns(n) ==
    IF n = 0 THEN {<<>>}
    ELSE {q \o px : q \in TiffPixelRuns(n - 1), px \in TiffPixels}

\* Canvases of up to MaxTiffPixels pixels.
CanvasesOfSize(w, h) == {[width |-> w, height |-> h, data |-> d] : d \in TiffPixelRuns(w * h)}
Canvases ==
    UNION {UNION {CanvasesOfSize(w, h) : h \in 1..(MaxTiffPixels \div w)} :
            w \in 1..MaxTiffPixels}

TiffDpis == {Num(72), Num(300), [n |-> 145, d |-> 2]}

Dates ==
    {[Y |-> 2024, M |-> 1, D |-> 5, h |-> 9, m |-> 3, s |-> 7],
     [Y |-> 2025, M |-> 12, D |-> 31, h |-> 23, m |-> 59, s |-> 59]}

\* Entries a caller of _buildTiffBuffer may pass, the count of each matching
\* its value: inline LONG and SHORT values, inline and out-of-line SHORT
\* arrays, one and two RATIONALs, a short and a longer string, a LONG array.
TagPool ==
    {Entry(ImageIFD.StripOffsets, TIFF_TYPES.LONG, 1, NumberValue(Num(0))),
     Entry(ImageIFD.ImageWidth, TIFF_TYPES.LONG, 1, NumberValue(Num(640))),
     Entry(ImageIFD.Compression, TIFF_TYPES.SHORT, 1, NumberValue(Num(8))),
     Entry(ImageIFD.BitsPerSample, TIFF_TYPES.SHORT, 3,
           ArrayValue(<<Num(8), Num(8), Num(8)>>)),
     Entry(530, TIFF_TYPES.SHORT, 2, ArrayValue(<<Num(2), Num(1)>>)),
     Entry(ImageIFD.XResolution, TIFF_TYPES.RATIONAL, 1,
           ArrayValue(<<Num(300), Num(1)>>)),
     Entry(318, TIFF_TYPES.RATIONAL, 2,
           ArrayValue(<<Num(3127), Num(10000), Num(3290), Num(10000)>>)),
     Entry(ImageIFD.Software, TIFF_TYPES.ASCII, 0, StringValue(<<97, 98>>)),
     Entry(ImageIFD.DateTime, TIFF_TYPES.ASCII, 0, StringValue(<<97, 98, 99, 100>>)),
     Entry(324, TIFF_TYPES.LONG, 2, ArrayValue(<<Num(1000), Num(2000)>>))}

\* Sequences of up to n different entries of the pool.
RECURSIVE TagSets(_)
TagSets(n) ==
    IF n = 0 THEN {<<>>}
    ELSE LET shorter == TagSets(n - 1)
         IN  shorter \cup {Append(q, t) :
                            q \in {r \in shorter : Len(r) = n - 1},
                            t \in TagPool}

DistinctTagSets(n) ==
    {q \in TagSets(n) : \A i, j \in 1..Len(q) : i # j => q[i] # q[j]}

CompressedInputs == {<<>>, <<120, 1, 3>>}

\* Arguments of convertSvg.
SvgInputs ==
    {[type |-> "string", text |-> <<60, 115, 118, 103, 47, 62>>,
      parsererror |-> FALSE, root |-> "svg",
      width |-> NoAttr, height |-> NoAttr, viewBox |-> NoAttr],
     [type |-> "string", text |-> <<60, 115, 118, 103>>,
      parsererror |-> TRUE, root |-> "parsererror",
      width |-> NoAttr, height |-> NoAttr, viewBox |-> NoAttr],
     [type |-> "string", text |-> <<60, 112, 47, 62>>,
      parsererror |-> FALSE, root |-> "p",
      width |-> NoAttr, height |-> NoAttr, viewBox |-> NoAttr],
     [type |-> "string", text |-> <<>>, parsererror |-> TRUE, root |-> "parsererror",
      width |-> NoAttr, height |-> NoAttr, viewBox |-> NoAttr],
     [type |-> "undefined", text |-> <<>>, parsererror |-> TRUE, root |-> "parsererror",
      width |-> NoAttr, height |-> NoAttr, viewBox |-> NoAttr]}

\* 'png', 'PNG', 'jpg', 'jpeg', 'Tiff', 'tif', 'gif', '', undefined, null, 5
FormatInputs ==
    {String(<<112, 110, 103>>), String(<<80, 78, 71>>), String(<<106, 112, 103>>),
     String(<<106, 112, 101, 103>>), String(<<84, 105, 102, 102>>),
     String(<<116, 105, 102>>), String(<<103, 105, 102>>), String(<<>>),
     Other("undefined"), Other("null"), Number(Num(5))}

\* -72, 0, 0.5, 1, 72, 72.5, 2400, 2400.5, 2401, NaN, '72', undefined, null, true
DpiInputs ==
    {Number(Num(0 - 72)), Number(Num(0)), Number([n |-> 1, d |-> 2]), Number(Num(1)),
     Number(Num(72)), Number([n |-> 145, d |-> 2]), Number(Num(2400)),
     Number([n |-> 4801, d |-> 2]), Number(Num(2401)), Number(NaN),
     String(<<55, 50>>), Other("undefined"), Other("null"), Other("boolean")}

\* -0.1, 0, 0.92, 1, 1.5, NaN, undefined, '1'
QualityInputs ==
    {Number([n |-> 0 - 1, d |-> 10]), Number(Num(0)), Number([n |-> 23, d |-> 25]),
     Number(Num(1)), Number([n |-> 3, d |-> 2]), Number(NaN), Other("undefined"),
     String(<<49>>)}

\* The root element's attributes of the documents converted:
\* '100', '0', 'abc', '-5', '0.2', '10', '100px'; '0 0 100 50',
\* '0, 0, 100, 50', '0,0,100,50', '0 0 100'.
Text100 == <<49, 48, 48>>
ViewBoxSpaces == <<48, 32, 48, 32, 49, 48, 48, 32, 53, 48>>
ViewBoxCommaSpace == <<48, 44, 32, 48, 44, 32, 49, 48, 48, 44, 32, 53, 48>>
ViewBoxCommas == <<48, 44, 48, 44, 49, 48, 48, 44, 53, 48>>
ViewBoxShort == <<48, 32, 48, 32, 49, 48, 48>>

\* A well-formed document with an svg root and the attributes given.
SvgDocument(w, h, vb) ==
    [type |-> "string", text |-> <<60, 115, 118, 103, 47, 62>>,
     parsererror |-> FALSE, root |-> "svg", width |-> w, height |-> h, viewBox |-> vb]

Svg100 == SvgDocument(Attr(Text100), Attr(Text100), NoAttr)

SizedDocuments ==
    {Svg100,
     SvgDocument(Attr(<<48>>), Attr(Text100), NoAttr),
     SvgDocument(Attr(<<97, 98, 99>>), Attr(<<49, 48>>), NoAttr),
     SvgDocument(Attr(<<45, 53>>), Attr(<<49, 48>>), NoAttr),
     SvgDocument(Attr(<<48, 46, 50>>), Attr(<<48, 46, 50>>), NoAttr),
     SvgDocument(Attr(<<49, 48, 48, 112, 120>>), Attr(<<49, 48>>), Attr(ViewBoxSpaces))}

ViewBoxDocuments ==
    {SvgDocument(NoAttr, NoAttr, Attr(ViewBoxSpaces)),
     SvgDocument(NoAttr, NoAttr, Attr(ViewBoxCommaSpace)),
     SvgDocument(NoAttr, NoAttr, Attr(ViewBoxCommas)),
     SvgDocument(Attr(Text100), NoAttr, Attr(ViewBoxShort)),
     SvgDocument(NoAttr, NoAttr, NoAttr)}

\* Arguments that are not an SVG document: an unclosed tag, another root,
\* the empty string, undefined.
RejectedDocuments ==
    {[SvgDocument(NoAttr, NoAttr, NoAttr) EXCEPT
        !.text = <<60, 115, 118, 103>>, !.parsererror = TRUE, !.root = "parsererror"],
     [SvgDocument(Attr(Text100), Attr(Text100), NoAttr) EXCEPT
        !.text = <<60, 112, 47, 62>>, !.root = "p"],
     [SvgDocument(NoAttr, NoAttr, NoAttr) EXCEPT
        !.text = <<>>, !.parsererror = TRUE, !.root = "parsererror"],
     [SvgDocument(NoAttr, NoAttr, NoAttr) EXCEPT
        !.type = "undefined", !.text = <<>>, !.parsererror = TRUE,
        !.root = "parsererror"]}

SvgDocuments == SizedDocuments \cup ViewBoxDocuments \cup RejectedDocuments

\* 'png', 'PNG', 'jpg', 'Tiff', 'gif', null, 5
ConvertFormats ==
    {String(<<112, 110, 103>>), String(<<80, 78, 71>>), String(<<106, 112, 103>>),
     String(<<84, 105, 102, 102>>), String(<<103, 105, 102>>), Other("null"),
     Number(Num(5))}

\* 72, 300, 0, NaN, '72', undefined
ConvertDpis ==
    {Number(Num(72)), Number(Num(300)), Number(Num(0)), Number(NaN),
     String(<<55, 50>>), Other("undefined")}

\* 1, 1.5
ConvertQualities == {Number(Num(1)), Number([n |-> 3, d |-> 2])}

\* The intrinsic size of the image the browser loaded.
NaturalSizes ==
    {[naturalWidth |-> 300, naturalHeight |-> 150],
     [naturalWidth |-> 0, naturalHeight |-> 0]}

\* What the blob of canvas.toBlob(…, 'image/png') may hold: encoder output,
\* the same with one byte zeroed (of the IHDR type; of the signature, at 0
\* and at 5), and three bytes only.
PngBlobs ==
    {PngHead \o <<73>>, [PngHead EXCEPT ![14] = 0] \o <<73>>,
     [PngHead EXCEPT ![1] = 0] \o <<73>>, [PngHead EXCEPT ![6] = 0] \o <<73>>,
     <<137, 80, 78>>}

\* What the response to the data URL piexif.insert made may hold (with and
\* without a JFIF segment; nothing, one byte, and bytes that do not start
\* with FF D8), and what the blob of canvas.toBlob(…, 'image/jpeg') may hold.
JpegWithExif ==
    {<<255, 216, 255, 225, 0, 4, 69, 120>> \o JfifApp0 \o <<255, 217>>,
     <<255, 216, 255, 225, 0, 4, 69, 120, 255, 217>>,
     <<>>, <<255>>, <<0, 216, 255, 217>>, <<255, 217>> \o JfifApp0}
PlainJpegs == {<<255, 216>> \o JfifApp0 \o <<255, 217>>}


----------------------------------------------------------------------------
(* The CRC unit and the PNG injector as state machines: a call is made on  *)
(* arguments fixed at the start and runs to its completion.                *)

CrcIdle == crcData = <<>> /\ crcOut = None
PngIdle == pngData = <<>> /\ pngDpi = None /\ pngOut = None
JpegIdle ==
    /\ jpegData = <<>>
    /\ jpegDpi = None
    /\ offset = 0
    /\ jfifMarkerIndex = -1
    /\ jpegOut = None
RgbIdle == rgbaData = <<>> /\ preserveTransparency = FALSE /\ rgbOut = None
TiffIdle ==
    /\ canvas = None
    /\ tiffDpi = None
    /\ transparentBackground = FALSE
    /\ tiffNow = None
    /\ tiffTags = <<>>
    /\ tiffEntries = <<>>
    /\ tiffCompressed = <<>>
    /\ tiffOut = None
ConvIdle ==
    /\ convSvg = None
    /\ convFormat = None
    /\ convDpi = None
    /\ convQuality = None
    /\ convOut = None
PipeIdle ==
    /\ convFlag = FALSE
    /\ rasterCalled = FALSE
    /\ img = None
    /\ dimensions = None
    /\ rasterOut = None
    /\ encBytes = <<>>
    /\ encOut = None
    /\ convResult = None
    /\ otherRanAt = {}
    /\ raised = {}
HeapIdle == heap = <<>> /\ argRef = 0 /\ outRef = 0 /\ given = <<>> /\ stageArg = None

\* The states of SvgConverter and FileUpload after the first render.
UiIdle ==
    /\ svgFile = None
    /\ svgContent = EmptyText
    /\ outputFormat = "png"
    /\ uiDpi = 72
    /\ uiTransparentBackground = FALSE
    /\ isConverting = FALSE
    /\ progress = 0
    /\ uiError = None
    /\ selectedFile = None
    /\ readers = {}
    /\ timers = 0
    /\ downloaded = <<>>
    /\ flagCleared = FALSE

InitCrc ==
    /\ pc = "crc"
    /\ crcData \in CrcInputs
    /\ crcOut = None
    /\ PngIdle
    /\ JpegIdle
    /\ RgbIdle
    /\ TiffIdle
    /\ ConvIdle
    /\ PipeIdle
    /\ HeapIdle
    /\ UiIdle

CalculateCrc32 ==
    /\ pc = "crc"
    /\ crcOut' = calculateCrc32(crcData)
    /\ pc' = "crc_done"
    /\ UNCHANGED <<crcData, pngVars, jpegVars, rgbVars, tiffVars, convVars, pipeVars, heapVars, uiVars>>

SpecCrc == InitCrc /\ [][CalculateCrc32]_vars

InitPng ==
    /\ pc = "png"
    /\ pngData \in PngInputs
    /\ pngDpi \in Dpis
    /\ pngOut = None
    /\ CrcIdle
    /\ JpegIdle
    /\ RgbIdle
    /\ TiffIdle
    /\ ConvIdle
    /\ PipeIdle
    /\ HeapIdle
    /\ UiIdle

AddPngDpiChunk ==
    /\ pc = "png"
    /\ pngOut' = addPngDpiChunk(pngData, pngDpi)
    /\ pc' = "png_done"
    /\ UNCHANGED <<pngData, pngDpi, crcVars, jpegVars, rgbVars, tiffVars, convVars, pipeVars, heapVars, uiVars>>

SpecPng == InitPng /\ [][AddPngDpiChunk]_vars

(* _setJfifDpi, one step per loop iteration.  pc is "jfif" at the call,    *)
(* "jfif_scan" at the head of the while loop, "jfif_write" after the loop  *)
(* and "jfif_done" once the call has returned.                             *)

InitJfif ==
    /\ pc = "jfif"
    /\ jpegData \in JpegInputs
    /\ jpegDpi \in Dpis
    /\ offset = 0
    /\ jfifMarkerIndex = -1
    /\ jpegOut = None
    /\ CrcIdle
    /\ PngIdle
    /\ RgbIdle
    /\ TiffIdle
    /\ ConvIdle
    /\ PipeIdle
    /\ HeapIdle
    /\ UiIdle

\* The SOI test: the input itself is returned when it fails.
SetJfifDpiEnter ==
    /\ pc = "jfif"
    /\ IF missingSoi(jpegData)
       THEN /\ jpegOut' = Return(jpegData)
            /\ pc' = "jfif_done"
            /\ UNCHANGED offset
       ELSE /\ offset' = 2
            /\ pc' = "jfif_scan"
            /\ UNCHANGED jpegOut
    /\ UNCHANGED <<jpegData, jpegDpi, jfifMarkerIndex, crcVars, pngVars, rgbVars, tiffVars, convVars, pipeVars, heapVars, uiVars>>

\* One evaluation of the loop condition and, when it holds, of the body.
SetJfifDpiScan ==
    /\ pc = "jfif_scan"
    /\ IF ~(offset < Len(jpegData) - 1)
       THEN pc' = "jfif_write" /\ UNCHANGED <<offset, jfifMarkerIndex>>
       ELSE IF At(jpegData, offset) # 255
       THEN pc' = "jfif_write" /\ UNCHANGED <<offset, jfifMarkerIndex>>
       ELSE IF ~(At(jpegData, offset + 1) >= 224 /\ At(jpegData, offset + 1) <= 239)
       THEN pc' = "jfif_write" /\ UNCHANGED <<offset, jfifMarkerIndex>>
       ELSE IF hasJfifSignature(jpegData, offset)
       THEN /\ jfifMarkerIndex' = offset
            /\ pc' = "jfif_write"
            /\ UNCHANGED offset
       ELSE /\ offset' = offset + 2 + segmentLength(jpegData, offset)
            /\ UNCHANGED <<pc, jfifMarkerIndex>>
    /\ UNCHANGED <<jpegData, jpegDpi, jpegOut, crcVars, pngVars, rgbVars, tiffVars, convVars, pipeVars, heapVars, uiVars>>

\* The patch of the segment found, or the splice of a new one.
SetJfifDpiWrite ==
    /\ pc = "jfif_write"
    /\ jpegOut' = IF jfifMarkerIndex # -1
                  THEN Return(patchJfif(jpegData, jfifMarkerIndex, jpegDpi))
                  ELSE Return(insertJfif(jpegData, jpegDpi))
    /\ pc' = "jfif_done"
    /\ UNCHANGED <<jpegData, jpegDpi, offset, jfifMarkerIndex, crcVars, pngVars, rgbVars, tiffVars, convVars, pipeVars, heapVars, uiVars>>

NextJfif == SetJfifDpiEnter \/ SetJfifDpiScan \/ SetJfifDpiWrite

SpecJfif == InitJfif /\ [][NextJfif]_vars

\* _setJfifDpi is synchronous code: once called it runs on, statement after
\* statement, until it returns.
SpecJfifFair == SpecJfif /\ WF_vars(NextJfif)

(* _rgbaToRgb *)

InitRgb ==
    /\ pc = "rgb"
    /\ rgbaData \in RgbaInputs
    /\ preserveTransparency \in BOOLEAN
    /\ rgbOut = None
    /\ CrcIdle
    /\ PngIdle
    /\ JpegIdle
    /\ TiffIdle
    /\ ConvIdle
    /\ PipeIdle
    /\ HeapIdle
    /\ UiIdle

RgbaToRgb ==
    /\ pc = "rgb"
    /\ rgbOut' = rgbaToRgb(rgbaData, preserveTransparency)
    /\ pc' = "rgb_done"
    /\ UNCHANGED <<rgbaData, preserveTransparency, crcVars, pngVars, jpegVars, tiffVars, convVars, pipeVars, heapVars, uiVars>>

SpecRgb == InitRgb /\ [][RgbaToRgb]_vars

(* canvasToTiff, and _buildTiffBuffer on tag sets of its callers' making *)

InitTiff ==
    /\ pc = "tiff"
    /\ canvas \in Canvases
    /\ tiffDpi \in TiffDpis
    /\ transparentBackground \in BOOLEAN
    /\ tiffNow \in Dates
    /\ tiffTags = <<>>
    /\ tiffEntries = <<>>
    /\ tiffCompressed = <<>>
    /\ tiffOut = None
    /\ CrcIdle
    /\ PngIdle
    /\ JpegIdle
    /\ RgbIdle
    /\ ConvIdle
    /\ PipeIdle
    /\ HeapIdle
    /\ UiIdle

CanvasToTiff ==
    /\ pc = "tiff"
    /\ tiffCompressed' = tiffCompressedData(canvas, transparentBackground)
    /\ tiffTags' = canvasToTiffTags(canvas, tiffDpi, transparentBackground, tiffNow)
    /\ tiffEntries' = tagsAfterBuild(tiffTags')
    /\ tiffOut' = buildTiffBuffer(tiffTags', tiffCompressed')
    /\ pc' = "tiff_done"
    /\ UNCHANGED <<canvas, tiffDpi, transparentBackground, tiffNow,
                   crcVars, pngVars, jpegVars, rgbVars, convVars, pipeVars, heapVars, uiVars>>

SpecTiff == InitTiff /\ [][CanvasToTiff]_vars

InitTiffTags ==
    /\ pc = "build"
    /\ tiffTags \in DistinctTagSets(MaxTags)
    /\ tiffCompressed \in CompressedInputs
    /\ tiffEntries = <<>>
    /\ tiffOut = None
    /\ canvas = None
    /\ tiffDpi = None
    /\ transparentBackground = FALSE
    /\ tiffNow = None
    /\ CrcIdle
    /\ PngIdle
    /\ JpegIdle
    /\ RgbIdle
    /\ ConvIdle
    /\ PipeIdle
    /\ HeapIdle
    /\ UiIdle

BuildTiffBuffer ==
    /\ pc = "build"
    /\ tiffEntries' = tagsAfterBuild(tiffTags)
    /\ tiffOut' = buildTiffBuffer(tiffTags, tiffCompressed)
    /\ pc' = "build_done"
    /\ UNCHANGED <<canvas, tiffDpi, transparentBackground, tiffNow, tiffTags,
                   tiffCompressed, crcVars, pngVars, jpegVars, rgbVars, convVars, pipeVars, heapVars, uiVars>>

SpecTiffTags == InitTiffTags /\ [][BuildTiffBuffer]_vars

(* convertSvg up to the end of _validateInputs *)

InitValidate ==
    /\ pc = "convert"
    /\ convSvg \in SvgInputs
    /\ convFormat \in FormatInputs
    /\ convDpi \in DpiInputs
    /\ convQuality \in QualityInputs
    /\ convOut = None
    /\ CrcIdle
    /\ PngIdle
    /\ JpegIdle
    /\ RgbIdle
    /\ TiffIdle
    /\ PipeIdle
    /\ HeapIdle
    /\ UiIdle

ValidateInputs ==
    /\ pc = "convert"
    /\ convOut' = validateInputs(convSvg, convFormat, Default(convDpi, DEFAULT_DPI),
                                 Default(convQuality, JPEG_QUALITY))
    /\ pc' = "validated"
    /\ UNCHANGED <<convSvg, convFormat, convDpi, convQuality,
                   crcVars, pngVars, jpegVars, rgbVars, tiffVars, pipeVars, heapVars, uiVars>>

SpecValidate == InitValidate /\ [][ValidateInputs]_vars

----------------------------------------------------------------------------

(* convertSvg as a state machine: validation, the rasterizer, the encoder  *)
(* of the format, each await a position at which the call is suspended.    *)

InitConvert ==
    /\ pc = "convert"
    /\ convSvg \in SvgDocuments
    /\ convFormat \in ConvertFormats
    /\ convDpi \in ConvertDpis
    /\ convQuality \in ConvertQualities
    /\ convOut = None
    /\ convFlag \in BOOLEAN
    /\ rasterCalled = FALSE
    /\ img = None
    /\ dimensions = None
    /\ rasterOut = None
    /\ encBytes = <<>>
    /\ encOut = None
    /\ convResult = None
    /\ otherRanAt = {}
    /\ raised = {}
    /\ CrcIdle
    /\ PngIdle
    /\ JpegIdle
    /\ RgbIdle
    /\ TiffIdle
    /\ HeapIdle
    /\ UiIdle

\* The arguments after their defaults.
dpiGiven == Default(convDpi, DEFAULT_DPI).num
ZeroSized(cv) == cv.width = 0 \/ cv.height = 0

pipeFixed == <<convSvg, convFormat, convDpi, convQuality, convOut, convFlag>>
otherVars == <<crcVars, pngVars, jpegVars, rgbVars, tiffVars, heapVars, uiVars>>

\* An error of _validateInputs leaves convertSvg as it was thrown (the call
\* is outside the try); otherwise the try block is entered.
ConvertSvgProceed ==
    /\ pc = "validated"
    /\ IF convOut.kind = "throw"
       THEN convResult' = convOut /\ pc' = "convert_done"
       ELSE convResult' = convResult /\ pc' = "raster"
    /\ UNCHANGED <<pipeFixed, rasterCalled, img, dimensions, rasterOut, encBytes,
                   encOut, otherRanAt, raised, otherVars>>

\* svgToCanvas is called and waits for the image to load.
SvgToCanvasCall ==
    /\ pc = "raster"
    /\ rasterCalled' = TRUE
    /\ pc' = "raster_await"
    /\ UNCHANGED <<pipeFixed, img, dimensions, rasterOut, encBytes, encOut,
                   convResult, otherRanAt, raised, otherVars>>

\* The image has loaded or has failed to; in the first case svgToCanvas
\* runs to its end.
SvgToCanvasResume ==
    /\ pc = "raster_await"
    /\ \E loaded \in BOOLEAN, image \in NaturalSizes, context \in BOOLEAN :
          /\ loaded => Renders(convSvg)
          /\ IF ~loaded
             THEN /\ rasterOut' = Throw("Failed to load image from URL")
                  /\ UNCHANGED <<img, dimensions>>
             ELSE /\ img' = image
                  /\ dimensions' = resolveDimensions(convSvg, image)
                  /\ rasterOut' =
                        IF context
                        THEN Return(scaledCanvas(resolveDimensions(convSvg, image),
                                                 dpiGiven, convFlag))
                        ELSE Throw("Could not get 2D context from canvas.")
    /\ raised' = IF rasterOut'.kind = "throw" THEN raised \cup {"rasterizer"} ELSE raised
    /\ pc' = "raster_done"
    /\ UNCHANGED <<pipeFixed, rasterCalled, encBytes, encOut, convResult,
                   otherRanAt, otherVars>>

\* convertSvg resumes with the rasterizer's completion and calls the encoder
\* of the format, which runs up to its first await: canvasToPng waits for
\* toBlob; canvasToJpeg waits for fetch, or for toBlob when toDataURL,
\* piexif.dump or piexif.insert has thrown; canvasToTiff has no await and
\* completes.  A canvas without pixels gives 'data:,' (which piexif.insert
\* rejects) and makes getImageData throw.
ConvertSvgDispatch ==
    /\ pc = "raster_done"
    /\ IF rasterOut.kind = "throw"
       THEN /\ convResult' = Wrapped(convFormat, rasterOut.error)
            /\ pc' = "convert_done"
            /\ UNCHANGED <<encOut, raised>>
       ELSE /\ convResult' = convResult
            /\ IF toLowerCase(convFormat.text) = <<112, 110, 103>>
               THEN /\ pc' = "png_toblob"
                    /\ UNCHANGED <<encOut, raised>>
               ELSE IF toLowerCase(convFormat.text) \in {<<106, 112, 103>>, <<106, 112, 101, 103>>}
               THEN \E inserted \in BOOLEAN :
                       /\ inserted => ~ZeroSized(rasterOut.value)
                       /\ pc' = IF inserted THEN "jpeg_fetch" ELSE "jpeg_fallback"
                       /\ raised' = IF inserted THEN raised ELSE raised \cup {"exif"}
                       /\ encOut' = encOut
               ELSE \E outcome \in {"ok", "Could not get 2D context from canvas",
                                    "IndexSizeError", "deflate failed"} :
                       /\ outcome = "ok" => ~ZeroSized(rasterOut.value)
                       /\ encOut' = IF outcome = "ok" THEN Return(<<77, 77, 0, 42>>)
                                    ELSE Throw(outcome)
                       /\ raised' = IF outcome = "ok" THEN raised ELSE raised \cup {"tiff"}
                       /\ pc' = "enc_await"
    /\ UNCHANGED <<pipeFixed, rasterCalled, img, dimensions, rasterOut, encBytes,
                   otherRanAt, otherVars>>

\* canvasToPng resumes with the blob of toBlob, null for a canvas without
\* pixels or when encoding failed.
PngBlobReady ==
    /\ pc = "png_toblob"
    /\ \E encoded \in BOOLEAN, blob \in PngBlobs :
          /\ encoded => ~ZeroSized(rasterOut.value)
          /\ IF encoded
             THEN /\ encBytes' = blob
                  /\ pc' = "png_arraybuffer"
                  /\ UNCHANGED <<encOut, raised>>
             ELSE /\ encOut' = Throw("Canvas to Blob conversion failed for PNG.")
                  /\ raised' = raised \cup {"png_toblob"}
                  /\ pc' = "enc_await"
                  /\ encBytes' = encBytes
    /\ UNCHANGED <<pipeFixed, rasterCalled, img, dimensions, rasterOut, convResult,
                   otherRanAt, otherVars>>

\* canvasToPng resumes with the blob's bytes (or with the read's error) and
\* returns: the catch turns every error into the original blob.
PngBufferReady ==
    /\ pc = "png_arraybuffer"
    /\ \E readable \in BOOLEAN :
          /\ encOut' = Return(pngWithDpi(encBytes, dpiGiven, readable))
          /\ raised' = IF ~readable THEN raised \cup {"png_read"}
                       ELSE IF addPngDpiChunk(encBytes, dpiGiven).kind = "throw"
                       THEN raised \cup {"png_malformed"}
                       ELSE raised
    /\ pc' = "enc_await"
    /\ UNCHANGED <<pipeFixed, rasterCalled, img, dimensions, rasterOut, encBytes,
                   convResult, otherRanAt, otherVars>>

\* canvasToJpeg resumes with the response of fetch, or with its error.
JpegFetched ==
    /\ pc = "jpeg_fetch"
    /\ \E fetched \in BOOLEAN, body \in JpegWithExif :
          IF fetched
          THEN encBytes' = body /\ pc' = "jpeg_arraybuffer" /\ raised' = raised
          ELSE encBytes' = encBytes /\ pc' = "jpeg_fallback"
                  /\ raised' = raised \cup {"exif"}
    /\ UNCHANGED <<pipeFixed, rasterCalled, img, dimensions, rasterOut, encOut,
                   convResult, otherRanAt, otherVars>>

\* canvasToJpeg resumes with the body's bytes, sets the JFIF density and
\* returns; an error of the read is caught like the others.
JpegBufferReady ==
    /\ pc = "jpeg_arraybuffer"
    /\ \E readable \in BOOLEAN :
          IF readable
          THEN /\ encOut' = Return(setJfifDpi(encBytes, dpiGiven))
               /\ pc' = "enc_await"
               /\ raised' = raised
          ELSE /\ encOut' = encOut
               /\ pc' = "jpeg_fallback"
               /\ raised' = raised \cup {"exif"}
    /\ UNCHANGED <<pipeFixed, rasterCalled, img, dimensions, rasterOut, encBytes,
                   convResult, otherRanAt, otherVars>>

\* The catch of canvasToJpeg resumes with the blob of toBlob.
JpegFallbackBlob ==
    /\ pc = "jpeg_fallback"
    /\ \E encoded \in BOOLEAN, blob \in PlainJpegs :
          /\ encoded => ~ZeroSized(rasterOut.value)
          /\ encOut' = IF encoded THEN Return(blob)
                       ELSE Throw("Canvas to Blob conversion failed for JPEG.")
          /\ raised' = IF encoded THEN raised ELSE raised \cup {"jpeg_toblob"}
    /\ pc' = "enc_await"
    /\ UNCHANGED <<pipeFixed, rasterCalled, img, dimensions, rasterOut, encBytes,
                   convResult, otherRanAt, otherVars>>

mimeType ==
    IF toLowerCase(convFormat.text) = <<112, 110, 103>> THEN "image/png"
    ELSE IF toLowerCase(convFormat.text) \in {<<106, 112, 103>>, <<106, 112, 101, 103>>}
    THEN "image/jpeg"
    ELSE "image/tiff"

\* convertSvg resumes with the encoder's completion: it returns the result
\* or, in its catch, throws the error with the format and the message.
ConvertSvgReturn ==
    /\ pc = "enc_await"
    /\ convResult' =
          IF encOut.kind = "return"
          THEN Return([data |-> encOut.value, mimeType |-> mimeType,
                       canvas |-> rasterOut.value])
          ELSE Wrapped(convFormat, encOut.error)
    /\ pc' = "convert_done"
    /\ UNCHANGED <<pipeFixed, rasterCalled, img, dimensions, rasterOut, encBytes,
                   encOut, otherRanAt, raised, otherVars>>

\* Another task of the event loop runs while the conversion is suspended.
OtherTask ==
    /\ suspends(pc)
    /\ pc \notin otherRanAt
    /\ otherRanAt' = otherRanAt \cup {pc}
    /\ UNCHANGED <<pc, pipeFixed, rasterCalled, img, dimensions, rasterOut, encBytes,
                   encOut, convResult, raised, otherVars>>

NextConvert ==
    \/ ValidateInputs
    \/ ConvertSvgProceed
    \/ SvgToCanvasCall
    \/ SvgToCanvasResume
    \/ ConvertSvgDispatch
    \/ PngBlobReady
    \/ PngBufferReady
    \/ JpegFetched
    \/ JpegBufferReady
    \/ JpegFallbackBlob
    \/ ConvertSvgReturn
    \/ OtherTask

SpecConvert == InitConvert /\ [][NextConvert]_vars

----------------------------------------------------------------------------
(* svgToCanvas alone, on documents the browser renders.                    *)

\* The document of 100 by 100 at every DPI of 1..2400, and every document at
\* 1, 72, 300, 2400 and NaN DPI (NaN passes _validateInputs).
RasterInputs ==
    {<<Svg100, Number(Num(d))>> : d \in 1..2400}
        \cup ((SizedDocuments \cup ViewBoxDocuments)
                \X {Number(Num(1)), Number(Num(72)), Number(Num(300)),
                    Number(Num(2400)), Number(NaN)})

InitRaster ==
    /\ pc = "raster"
    /\ \E input \in RasterInputs : convSvg = input[1] /\ convDpi = input[2]
    /\ convFormat = None
    /\ convQuality = None
    /\ convOut = None
    /\ convFlag \in BOOLEAN
    /\ rasterCalled = FALSE
    /\ img = None
    /\ dimensions = None
    /\ rasterOut = None
    /\ encBytes = <<>>
    /\ encOut = None
    /\ convResult = None
    /\ otherRanAt = {}
    /\ raised = {}
    /\ CrcIdle
    /\ PngIdle
    /\ JpegIdle
    /\ RgbIdle
    /\ TiffIdle
    /\ HeapIdle
    /\ UiIdle

NextRaster == SvgToCanvasCall \/ SvgToCanvasResume

SpecRaster == InitRaster /\ [][NextRaster]_vars

----------------------------------------------------------------------------
(* A stage called on a buffer of the heap.                                 *)

InitHeap ==
    /\ \/ pc = "heap_rgb" /\ given \in RgbaInputs /\ stageArg \in BOOLEAN
       \/ pc = "heap_png" /\ given \in PngBlobs /\ stageArg \in Dpis
       \/ pc = "heap_jfif" /\ given \in JpegInputs /\ stageArg \in Dpis
    /\ heap = <<given>>
    /\ argRef = 1
    /\ outRef = 0
    /\ CrcIdle
    /\ PngIdle
    /\ JpegIdle
    /\ RgbIdle
    /\ TiffIdle
    /\ ConvIdle
    /\ PipeIdle
    /\ UiIdle

RgbaToRgbOnHeap ==
    /\ pc = "heap_rgb"
    /\ heap' = rgbaToRgbOnHeap(heap, argRef, stageArg).heap
    /\ outRef' = rgbaToRgbOnHeap(heap, argRef, stageArg).ref
    /\ pc' = "heap_rgb_done"
    /\ UNCHANGED <<argRef, given, stageArg, crcVars, pngVars, jpegVars, rgbVars,
                   tiffVars, convVars, pipeVars, uiVars>>

AddPngDpiChunkOnHeap ==
    /\ pc = "heap_png"
    /\ heap' = addPngDpiChunkOnHeap(heap, argRef, stageArg).heap
    /\ outRef' = addPngDpiChunkOnHeap(heap, argRef, stageArg).ref
    /\ pc' = "heap_png_done"
    /\ UNCHANGED <<argRef, given, stageArg, crcVars, pngVars, jpegVars, rgbVars,
                   tiffVars, convVars, pipeVars, uiVars>>

SetJfifDpiOnHeap ==
    /\ pc = "heap_jfif"
    /\ heap' = setJfifDpiOnHeap(heap, argRef, stageArg).heap
    /\ outRef' = setJfifDpiOnHeap(heap, argRef, stageArg).ref
    /\ pc' = "heap_jfif_done"
    /\ UNCHANGED <<argRef, given, stageArg, crcVars, pngVars, jpegVars, rgbVars,
                   tiffVars, convVars, pipeVars, uiVars>>

NextHeap == RgbaToRgbOnHeap \/ AddPngDpiChunkOnHeap \/ SetJfifDpiOnHeap

SpecHeap == InitHeap /\ [][NextHeap]_vars

----------------------------------------------------------------------------
(* The page: SvgConverter with its FileUpload.  A step is one event       *)
(* handler, FileReader callback, timer callback or continuation of         *)
(* convertImage run to its end, with the state updates it batches.         *)

InitUi ==
    /\ pc = "ui"
    /\ UiIdle
    /\ CrcIdle
    /\ PngIdle
    /\ JpegIdle
    /\ RgbIdle
    /\ TiffIdle
    /\ ConvIdle
    /\ PipeIdle
    /\ HeapIdle

uiFixed == <<pc, crcVars, pngVars, jpegVars, rgbVars, tiffVars, convVars, pipeVars, heapVars>>

\* handleFileSelect(f), f a file or null: the reader it starts is one more
\* pending callback.
HandleFileSelect(f) ==
    IF f = None
    THEN /\ svgFile' = None
         /\ svgContent' = EmptyText
         /\ uiError' = None
         /\ UNCHANGED readers
    ELSE IF FileType(f) # "image/svg+xml"
    THEN /\ uiError' = "Please select a valid SVG file"
         /\ UNCHANGED <<svgFile, svgContent, readers>>
    ELSE /\ svgFile' = f
         /\ uiError' = None
         /\ readers' = readers \cup {f}
         /\ UNCHANGED svgContent

\* FileUpload.handleFileInputChange: the input is disabled during a conversion.
HandleFileInputChange ==
    /\ pc = "ui"
    /\ ~isConverting
    /\ \E f \in UiFiles :
        /\ selectedFile' = f
        /\ HandleFileSelect(f)
    /\ UNCHANGED <<outputFormat, uiDpi, uiTransparentBackground, isConverting, progress,
                   timers, downloaded, flagCleared, uiFixed>>

\* FileUpload.handleDrop of a file it accepts.
HandleDrop ==
    /\ pc = "ui"
    /\ ~isConverting
    /\ \E f \in UiFiles :
        /\ FileType(f) = "image/svg+xml"
        /\ selectedFile' = f
        /\ HandleFileSelect(f)
    /\ UNCHANGED <<outputFormat, uiDpi, uiTransparentBackground, isConverting, progress,
                   timers, downloaded, flagCleared, uiFixed>>

\* FileUpload.handleRemoveFile: the button is there when a file is selected.
HandleRemoveFile ==
    /\ pc = "ui"
    /\ ~isConverting
    /\ selectedFile # None
    /\ selectedFile' = None
    /\ HandleFileSelect(None)
    /\ UNCHANGED <<outputFormat, uiDpi, uiTransparentBackground, isConverting, progress,
                   timers, downloaded, flagCleared, uiFixed>>

\* reader.onload of the reader started for f.
ReaderOnload ==
    /\ pc = "ui"
    /\ \E f \in readers :
        /\ readers' = readers \ {f}
        /\ IF isValidSvg(FileContent(f))
           THEN svgContent' = FileContent(f) /\ UNCHANGED uiError
           ELSE uiError' = "Invalid SVG file format" /\ UNCHANGED svgContent
    /\ UNCHANGED <<svgFile, outputFormat, uiDpi, uiTransparentBackground, isConverting,
                   progress, selectedFile, timers, downloaded, flagCleared, uiFixed>>

\* A click on a format radio button that is not the checked one.
HandleFormatChange ==
    /\ pc = "ui"
    /\ ~isConverting
    /\ \E format \in UiFormats \ {outputFormat} :
        LET set == handleFormatChange(format, uiTransparentBackground)
        IN  /\ outputFormat' = set.outputFormat
            /\ uiTransparentBackground' = set.transparentBackground
            /\ flagCleared' = (uiTransparentBackground /\ ~set.transparentBackground)
    /\ UNCHANGED <<svgFile, svgContent, uiDpi, isConverting, progress, uiError,
                   selectedFile, readers, timers, downloaded, uiFixed>>

\* A click on the background checkbox, rendered for PNG and TIFF only.
HandleTransparentBackgroundChange ==
    /\ pc = "ui"
    /\ ~isConverting
    /\ outputFormat = "png" \/ outputFormat = "tiff"
    /\ uiTransparentBackground' = ~uiTransparentBackground
    /\ flagCleared' = FALSE
    /\ UNCHANGED <<svgFile, svgContent, outputFormat, uiDpi, isConverting, progress,
                   uiError, selectedFile, readers, timers, downloaded, uiFixed>>

\* A click on a DPI radio button that is not the checked one.
HandleDpiChange ==
    /\ pc = "ui"
    /\ ~isConverting
    /\ \E d \in UiDpis \ {uiDpi} : uiDpi' = d
    /\ UNCHANGED <<svgFile, svgContent, outputFormat, uiTransparentBackground,
                   isConverting, progress, uiError, selectedFile, readers, timers,
                   downloaded, flagCleared, uiFixed>>

\* convertImage up to its await: the button is enabled when there is content
\* and no conversion is running.
ConvertImage ==
    /\ pc = "ui"
    /\ ~IsEmpty(svgContent)
    /\ ~isConverting
    /\ timers < MaxTimers
    /\ isConverting' = TRUE
    /\ progress' = 25
    /\ uiError' = None
    /\ UNCHANGED <<svgFile, svgContent, outputFormat, uiDpi, uiTransparentBackground,
                   selectedFile, readers, timers, downloaded, flagCleared, uiFixed>>

\* convertImage after convertSvg has resolved: without a file, svgFile.name
\* throws and the catch block runs.
ConvertImageResolved ==
    /\ pc = "ui"
    /\ isConverting
    /\ IF svgFile = None
       THEN /\ uiError' = "Conversion failed"
            /\ progress' = 0
            /\ UNCHANGED <<timers, downloaded>>
       ELSE /\ progress' = 100
            /\ downloaded' = downloadName(FileName(svgFile), outputFormat)
            /\ timers' = timers + 1
            /\ UNCHANGED uiError
    /\ isConverting' = FALSE
    /\ UNCHANGED <<svgFile, svgContent, outputFormat, uiDpi, uiTransparentBackground,
                   selectedFile, readers, flagCleared, uiFixed>>

\* convertImage after convertSvg has rejected.
ConvertImageRejected ==
    /\ pc = "ui"
    /\ isConverting
    /\ uiError' = "Conversion failed"
    /\ progress' = 0
    /\ isConverting' = FALSE
    /\ UNCHANGED <<svgFile, svgContent, outputFormat, uiDpi, uiTransparentBackground,
                   selectedFile, readers, timers, downloaded, flagCleared, uiFixed>>

\* The callback of a reset timer, 2 seconds after it was set.
ResetTimer ==
    /\ pc = "ui"
    /\ timers > 0
    /\ timers' = timers - 1
    /\ progress' = 0
    /\ UNCHANGED <<svgFile, svgContent, outputFormat, uiDpi, uiTransparentBackground,
                   isConverting, uiError, selectedFile, readers, downloaded,
                   flagCleared, uiFixed>>

NextUi ==
    \/ HandleFileInputChange
    \/ HandleDrop
    \/ HandleRemoveFile
    \/ ReaderOnload
    \/ HandleFormatChange
    \/ HandleTransparentBackgroundChange
    \/ HandleDpiChange
    \/ ConvertImage
    \/ ConvertImageResolved
    \/ ConvertImageRejected
    \/ ResetTimer

SpecUi == InitUi /\ [][NextUi]_vars

----------------------------------------------------------------------------
(* The whole converter: any one of the calls above.                        *)

Init ==
    \/ InitCrc
    \/ InitPng
    \/ InitJfif
    \/ InitRgb
    \/ InitTiff
    \/ InitTiffTags
    \/ InitValidate
    \/ InitConvert
    \/ InitRaster
    \/ InitHeap
    \/ InitUi

Next ==
    \/ CalculateCrc32
    \/ AddPngDpiChunk
    \/ NextJfif
    \/ RgbaToRgb
    \/ CanvasToTiff
    \/ BuildTiffBuffer
    \/ NextConvert
    \/ NextHeap
    \/ NextUi

Spec == Init /\ [][Next]_vars

----------------------------------------------------------------------------
(* Claims about the PNG injector and the CRC unit *)

\* C1: whenever _addPngDpiChunk returns (its input passed the validation),
\* the output is 21 bytes longer than the input, its bytes 0..32 are the
\* input's bytes 0..32, its bytes 33..53 are a chunk of declared length 9 and
\* type 'pHYs' ending the payload with the unit byte, and its bytes from 54
\* on are the input's bytes from 33 on, in order.
C1_PngSplice ==
    (pc = "png_done" /\ pngOut.kind = "return") =>
        LET out == pngOut.value
        IN  /\ Len(out) = Len(pngData) + 21
            /\ \A i \in 0..32 : At(out, i) = At(pngData, i)
            /\ <<out[34], out[35], out[36], out[37]>> = <<0, 0, 0, 9>>
            /\ <<out[38], out[39], out[40], out[41]>> = <<112, 72, 89, 115>>
            /\ out[50] = 1
            /\ \A i \in 54..(Len(out) - 1) : At(out, i) = At(pngData, i - 21)

\* C1 witness: a call returned on an input that has bytes after IHDR.
C1_Witness ==
    /\ pc = "png_done"
    /\ pngOut.kind = "return"
    /\ Len(pngData) > 33
    /\ pngOut.value[55] = 73

\* The value of four bytes read as a big-endian number (first byte < 128).
DecodeBE32(b) == ((b[1] * 256 + b[2]) * 256 + b[3]) * 256 + b[4]

\* r is dpi x 39.3701 rounded to the nearest integer:
\* |r - n/d x 393701/10000| <= 1/2.
IsRoundedPixelsPerMeter(r, dpi) ==
    LET diff == r * 10000 * dpi.d - dpi.n * 393701
    IN  diff <= 5000 * dpi.d /\ -diff <= 5000 * dpi.d

InDpiRange(dpi) == dpi.d > 0 /\ dpi.n > 0 /\ dpi.n <= 2400 * dpi.d

\* C2: for every DPI in (0, 2400], the 21 bytes spliced in at offset 33
\* decode to length 9, type 'pHYs', X and Y pixels per unit both equal to
\* round(dpi x 39.3701) (11811 for dpi = 300), unit byte 1, and a stored CRC
\* equal to _calculateCrc32 recomputed over the 13 bytes type || payload.
C2_PhysChunkDecodes ==
    (pc = "png_done" /\ pngOut.kind = "return" /\ InDpiRange(pngDpi)) =>
        LET chunk == Slice(pngOut.value, 33, 54)
            x == DecodeBE32(SubSeq(chunk, 9, 12))
            y == DecodeBE32(SubSeq(chunk, 13, 16))
        IN  /\ Len(chunk) = 21
            /\ DecodeBE32(SubSeq(chunk, 1, 4)) = 9
            /\ SubSeq(chunk, 5, 8) = <<112, 72, 89, 115>>
            /\ IsRoundedPixelsPerMeter(x, pngDpi)
            /\ y = x
            /\ (pngDpi = Num(300) => x = 11811)
            /\ chunk[17] = 1
            /\ SubSeq(chunk, 18, 21) = BigEndian32(calculateCrc32(SubSeq(chunk, 5, 17)))

\* C2 witness: a chunk was injected for dpi = 300.
C2_Witness ==
    /\ pc = "png_done"
    /\ pngOut.kind = "return"
    /\ pngDpi = Num(300)
    /\ Slice(pngOut.value, 41, 45) = <<0, 0, 46, 35>>

\* The CRC-32 of the PNG specification computed one bit at a time, on
\* unsigned words: the register starts at all ones, each byte is XORed into
\* its low byte and followed by eight conditional shifts, and the result is
\* the register's complement.
RefPolynomial == [hi |-> 60856, lo |-> 33568]
RefXor(a, b) == [hi |-> Xor16(a.hi, b.hi), lo |-> Xor16(a.lo, b.lo)]
RefHalve(c) == [hi |-> c.hi \div 2, lo |-> (c.lo \div 2) + (c.hi % 2) * 32768]

RefBit(c) == IF c.lo % 2 = 1 THEN RefXor(RefHalve(c), RefPolynomial) ELSE RefHalve(c)

\* The register st.c after st.k more conditional shifts.
RECURSIVE RefBits(_)
RefBits(st) == IF st.k <= 0 THEN st.c ELSE RefBits([c |-> RefBit(st.c), k |-> st.k - 1])

\* The register st.c after the bytes of data from index st.i + 1 on.
RECURSIVE RefBytes(_, _)
RefBytes(st, data) ==
    IF st.i >= Len(data) THEN st.c
    ELSE RefBytes([c |-> RefBits([c |-> RefXor(st.c, [hi |-> 0, lo |-> data[st.i + 1]]),
                                  k |-> 8]),
                   i |-> st.i + 1], data)

RefRegister(data) == RefBytes([c |-> [hi |-> 65535, lo |-> 65535], i |-> 0], data)

RefCrc32(data) == RefXor(RefRegister(data), [hi |-> 65535, lo |-> 65535])

\* C7: _calculateCrc32 returns an unsigned value in [0, 2^32) that equals the
\* bit-by-bit reference CRC-32 on every input (0xCBF43926 for "123456789",
\* 0xAE426082 for "IEND").
C7_Crc32IsStandard ==
    (pc = "crc_done") =>
        /\ crcOut.hi \in 0..65535
        /\ crcOut.lo \in 0..65535
        /\ crcOut = RefCrc32(crcData)
        /\ (crcData = CheckString => crcOut = [hi |-> 52212, lo |-> 14630])
        /\ (crcData = IendText => crcOut = [hi |-> 44610, lo |-> 24706])

\* C7 witness: a checksum of several bytes whose top bit is set (a negative
\* number if it were read as signed).
C7_Witness ==
    /\ pc = "crc_done"
    /\ Len(crcData) >= 3
    /\ crcOut.hi >= 32768

----------------------------------------------------------------------------
(* Claims about the JFIF patch *)

\* The DPI as the integer the two 16-bit fields can hold: its integer part
\* t, with t <= dpi < t + 1 (0 for NaN).
IsIntegerPartOf(t, dpi) ==
    IF dpi.d = 0 THEN t = 0 ELSE t * dpi.d <= dpi.n /\ dpi.n < (t + 1) * dpi.d

DpiFieldBytes(dpi) ==
    CHOOSE hl \in (0..255) \X (0..255) : IsIntegerPartOf(hl[1] * 256 + hl[2], dpi)

JfifFound == pc = "jfif_done" /\ jfifMarkerIndex # -1

\* The byte the patched output must hold at offset k when the segment found
\* starts at offset i.
PatchedByte(k, i) ==
    IF k = i + 11 THEN 1
    ELSE IF k = i + 12 \/ k = i + 14 THEN DpiFieldBytes(jpegDpi)[1]
    ELSE IF k = i + 13 \/ k = i + 15 THEN DpiFieldBytes(jpegDpi)[2]
    ELSE At(jpegData, k)

\* C5 as the specification has it, for a whole DPI in (0, 2400]: when the scan finds 'JFIF\0'
\* in a segment starting at offset i, the output has the length of the
\* input, byte i+11 is 1, bytes i+12..i+13 and i+14..i+15 hold the DPI
\* big-endian, and every other byte is the input's.
C5_AsStated ==
    (JfifFound /\ IsInteger(jpegDpi) /\ InDpiRange(jpegDpi)) =>
        /\ Len(jpegOut.value) = Len(jpegData)
        /\ \A k \in 0..(jfifMarkerIndex + 15) :
                At(jpegOut.value, k) = PatchedByte(k, jfifMarkerIndex)
        /\ \A k \in 0..(Len(jpegData) - 1) :
                At(jpegOut.value, k) = PatchedByte(k, jfifMarkerIndex)

\* Whether the run of consecutive APPn segments that starts at offset st.at
\* holds a segment with the bytes 'JFIF\0' at its offsets 4..8.
RECURSIVE AppRunCarriesJfif(_, _)
AppRunCarriesJfif(st, data) ==
    IF st.at + 1 >= Len(data) THEN FALSE
    ELSE IF data[st.at + 1] # 255 \/ data[st.at + 2] \notin 224..239 THEN FALSE
    ELSE IF Slice(data, st.at + 4, st.at + 9) = <<74, 70, 73, 70, 0>> THEN TRUE
    ELSE IF st.at + 3 >= Len(data) THEN FALSE
    ELSE AppRunCarriesJfif(
            [at |-> st.at + 2 + data[st.at + 3] * 256 + data[st.at + 4]], data)

\* C6: when the input starts with FF D8 and no segment of the APPn run at
\* offset 2 carries 'JFIF\0', the result is FF D8, the 18-byte segment
\* FF E0 00 10 'JFIF' 00 01 01 01 hi lo hi lo 00 00, then the input from
\* offset 2 on (18 bytes more than the input).
C6_JfifInsert ==
    (/\ pc = "jfif_done"
     /\ Slice(jpegData, 0, 2) = <<255, 216>>
     /\ ~AppRunCarriesJfif([at |-> 2], jpegData)) =>
        /\ jpegOut.kind = "return"
        /\ Len(jpegOut.value) = Len(jpegData) + 18
        /\ Slice(jpegOut.value, 0, 2) = <<255, 216>>
        /\ Slice(jpegOut.value, 2, 14) = <<255, 224, 0, 16, 74, 70, 73, 70, 0, 1, 1, 1>>
        /\ Slice(jpegOut.value, 14, 18) =
              <<DpiFieldBytes(jpegDpi)[1], DpiFieldBytes(jpegDpi)[2],
                DpiFieldBytes(jpegDpi)[1], DpiFieldBytes(jpegDpi)[2]>>
        /\ Slice(jpegOut.value, 18, 20) = <<0, 0>>
        /\ \A k \in 2..(Len(jpegData) - 1) : At(jpegOut.value, k + 18) = At(jpegData, k)

\* C6 witness: a segment was spliced into a buffer whose APPn run (an APP1
\* segment, then a non-APPn marker) holds no JFIF segment, for dpi = 300.
C6_Witness ==
    /\ pc = "jfif_done"
    /\ jpegData = <<255, 216, 255, 225, 0, 4, 69, 120, 255, 219, 0, 2>>
    /\ jpegDpi = Num(300)
    /\ Slice(jpegOut.value, 2, 8) = <<255, 224, 0, 16, 74, 70>>
    /\ Slice(jpegOut.value, 14, 18) = <<1, 44, 1, 44>>
    /\ Len(jpegOut.value) = 30

----------------------------------------------------------------------------
(* Claims about the compositor *)

\* v is src blended over white at alpha a / 255 and rounded to the nearest
\* integer: |v - (src * a + 255 * (255 - a)) / 255| <= 1/2.
IsBlendOverWhite(v, src, a) ==
    LET diff == 255 * v - (src * a + 255 * (255 - a))
    IN  2 * diff <= 255 /\ -2 * diff <= 255

\* C8: with preserveTransparency = false, _rgbaToRgb returns exactly 3n
\* bytes for n pixels; each output channel is round(src x a + 255 x (1 - a))
\* with a = alpha / 255 and lies in 0..255; for a pixel of alpha 255 the
\* channel is the source channel, which is also what the blend gives at a = 1.
C8_BlendOverWhite ==
    (pc = "rgb_done" /\ ~preserveTransparency) =>
        LET n == Len(rgbaData) \div 4
        IN  /\ Len(rgbOut) = 3 * n
            /\ \A px \in 0..(n - 1) : \A c \in 0..2 :
                LET v == rgbOut[3 * px + c + 1]
                    src == rgbaData[4 * px + c + 1]
                    a == rgbaData[4 * px + 4]
                IN  /\ v \in 0..255
                    /\ IsBlendOverWhite(v, src, a)
                    /\ (a = 255 => v = src)

\* C8 witness: two pixels composited, the first translucent and the second opaque.
C8_Witness ==
    /\ pc = "rgb_done"
    /\ ~preserveTransparency
    /\ rgbaData = <<10, 200, 30, 128, 254, 1, 127, 255>>
    /\ rgbOut = <<132, 227, 142, 254, 1, 127>>

----------------------------------------------------------------------------
(* Claims about the TIFF writer *)

\* The file read back as a TIFF reader does: the IFD starts at offset 8, its
\* k-th entry (k from 1) at offset 10 + 12 (k - 1).
IfdEnd(n) == 8 + 2 + 12 * n + 4
EntryOffset(k) == 10 + 12 * (k - 1)
Field16(out, at) == out[at + 1] * 256 + out[at + 2]
Field32(out, at) == DecodeBE32(SubSeq(out, at + 1, at + 4))
EntryIndexes(out, tag) ==
    {k \in 1..Field16(out, 8) : Field16(out, EntryOffset(k)) = tag}

\* The encoded length of an entry as passed (a string is stored with its NUL)
\* and the bytes of its data.
TypeSize(type) ==
    IF type = 3 THEN 2 ELSE IF type = 4 THEN 4 ELSE IF type = 5 THEN 8 ELSE 1
EncodedLength(tag) ==
    IF tag.type = 2 THEN Len(tag.value.items) + 1 ELSE TypeSize(tag.type) * tag.count
RECURSIVE EncodedItems(_, _)
EncodedItems(items, type) ==
    IF Len(items) = 0 THEN <<>>
    ELSE (IF type = 3 THEN BigEndian16(items[1].n) ELSE BigEndian32(Word(items[1].n)))
            \o EncodedItems(Tail(items), type)
EncodedData(tag) ==
    IF tag.type = 2 THEN tag.value.items \o <<0>>
    ELSE EncodedItems(tag.value.items, tag.type)

\* The end of the data blocks: each entry longer than 4 bytes takes its
\* length rounded up to an even number.
RECURSIVE DataBlocksEnd(_)
DataBlocksEnd(tags) ==
    IF Len(tags) = 0 THEN 0
    ELSE LET length == EncodedLength(tags[Len(tags)])
         IN  DataBlocksEnd(SubSeq(tags, 1, Len(tags) - 1))
                + (IF length > 4 THEN length + (length % 2) ELSE 0)

\* C3 as the specification has it: in every file _buildTiffBuffer returns,
\* each entry whose encoded length exceeds 4 bytes holds in its value field
\* an offset o with IFD end <= o < strip offset, and the bytes from o on are
\* the entry's encoded data.
C3_AsStated ==
    (pc = "build_done" /\ tiffOut.kind = "return") =>
        LET out == tiffOut.value
            n == Len(tiffTags)
            strip == Len(out) - Len(tiffCompressed)
        IN  \A k \in 1..n :
                EncodedLength(tiffTags[k]) > 4 =>
                    /\ out[EntryOffset(k) + 9] < 128
                    /\ LET o == Field32(out, EntryOffset(k) + 8)
                       IN  /\ IfdEnd(n) <= o
                           /\ o < strip
                           /\ o + EncodedLength(tiffTags[k]) <= Len(out)
                           /\ SubSeq(out, o + 1, o + EncodedLength(tiffTags[k]))
                                = EncodedData(tiffTags[k])

\* The encoded bytes of an entry whose value is one number, a list of
\* numbers or a string, left-justified in the four bytes of the value field.
InlineData(tag) ==
    IF tag.value.kind = "number" THEN EncodedItems(<<tag.value.num>>, tag.type)
    ELSE EncodedData(tag)
PaddedToFour(data) == SubSeq(data \o <<0, 0, 0, 0>>, 1, 4)

\* C22 as stated: in every file _buildTiffBuffer returns for n entries, the
\* first ten bytes are 'MM', 42, the offset 8 and n; the k-th entry takes
\* the twelve bytes at its offset with its tag, its type, its count (for a
\* string, its length with the NUL) and, when its encoded length is at
\* most 4, its encoded bytes padded with zeros (the strip offset for
\* StripOffsets); four zero bytes follow the last entry.
C22_AsStated ==
    (pc = "build_done" /\ tiffOut.kind = "return") =>
        LET out == tiffOut.value
            n == Len(tiffTags)
        IN  /\ Len(out) >= IfdEnd(n)
            /\ SubSeq(out, 1, 10) = <<77, 77, 0, 42, 0, 0, 0, 8>> \o BigEndian16(n)
            /\ \A k \in 1..n :
                  LET tag == tiffTags[k]
                      at == EntryOffset(k)
                  IN  /\ SubSeq(out, at + 1, at + 2) = BigEndian16(tag.tag)
                      /\ SubSeq(out, at + 3, at + 4) = BigEndian16(tag.type)
                      /\ SubSeq(out, at + 5, at + 8) =
                            <<0, 0>> \o BigEndian16(IF tag.type = 2
                                                    THEN Len(tag.value.items) + 1
                                                    ELSE tag.count)
                      /\ (EncodedLength(tag) <= 4 /\ tag.tag # 273) =>
                            SubSeq(out, at + 9, at + 12) = PaddedToFour(InlineData(tag))
            /\ SubSeq(out, IfdEnd(n) - 3, IfdEnd(n)) = <<0, 0, 0, 0>>

\* C4: in every file canvasToTiff produces, the StripOffsets entry holds the
\* offset at which the data blocks end, the StripByteCounts entry holds the
\* length of the compressed data, the compressed bytes follow verbatim from
\* that offset, and the file ends where they end.
C4_StripLayout ==
    pc = "tiff_done" =>
        /\ tiffOut.kind = "return"
        /\ LET out == tiffOut.value
               offsets == EntryIndexes(out, 273)
               counts == EntryIndexes(out, 279)
           IN  /\ Cardinality(offsets) = 1
               /\ Cardinality(counts) = 1
               /\ \A k \in offsets : \A c \in counts :
                    LET strip == Field32(out, EntryOffset(k) + 8)
                    IN  /\ strip = IfdEnd(Len(tiffTags)) + DataBlocksEnd(tiffTags)
                        /\ Field32(out, EntryOffset(c) + 8) = Len(tiffCompressed)
                        /\ SubSeq(out, strip + 1, strip + Len(tiffCompressed)) = tiffCompressed
                        /\ Len(out) = strip + Len(tiffCompressed)

\* The entries of the tag set whose value does not fit the value field, and
\* where the first loop has put their blocks (the offset it stored in the entry).
OutOfLine == {k \in 1..Len(tiffTags) : EncodedLength(tiffTags[k]) > 4}
BlockStart(k) == tiffEntries[k].value.num.n
BlockEnd(k) == BlockStart(k) + EncodedLength(tiffTags[k])

\* C23: once _buildTiffBuffer has laid a tag set out, every out-of-line block
\* starts at an even offset at or after the end of the IFD (8 + 2 + 12n + 4),
\* the blocks come in tag order and none reaches into the next, every ASCII
\* entry counts the NUL that ends its text (and an out-of-line text is in the
\* file with that NUL), and the strip offset is even and after every block.
C23_DataBlockLayout ==
    (pc = "build_done") =>
        LET n == Len(tiffTags)
            strip == findStripOffsets(tiffTags)
        IN  /\ \A k \in OutOfLine :
                    /\ tiffEntries[k].value.kind = "number"
                    /\ BlockStart(k) % 2 = 0
                    /\ BlockStart(k) >= IfdEnd(n)
            /\ \A j, k \in OutOfLine : j < k => BlockEnd(j) <= BlockStart(k)
            /\ \A k \in 1..n :
                    tiffTags[k].type = TIFF_TYPES.ASCII =>
                        /\ tiffEntries[k].count = Len(tiffTags[k].value.items) + 1
                        /\ (k \in OutOfLine /\ tiffOut.kind = "return") =>
                                SubSeq(tiffOut.value, BlockStart(k) + 1, BlockEnd(k))
                                    = tiffTags[k].value.items \o <<0>>
            /\ strip # 0 =>
                    /\ tiffEntries[strip].value.num.n % 2 = 0
                    /\ tiffEntries[strip].value.num.n >= IfdEnd(n)
                    /\ \A k \in OutOfLine : BlockEnd(k) <= tiffEntries[strip].value.num.n

\* C23 witness: a five-byte text (with its NUL) at offset 50 is followed by a
\* rational at 56, not 55, and the strip at 64.
C23_Witness ==
    /\ pc = "build_done"
    /\ tiffOut.kind = "return"
    /\ Len(tiffTags) = 3
    /\ tiffTags[2].type = TIFF_TYPES.ASCII
    /\ OutOfLine = {2, 3}
    /\ BlockStart(2) = 50
    /\ BlockStart(3) = 56
    /\ tiffEntries[1].value.num.n = 64

\* C4 witness: a two-pixel image with an alpha channel, whose 14 entries and
\* five data blocks put the strip at offset 244.
C4_Witness ==
    /\ pc = "tiff_done"
    /\ tiffOut.kind = "return"
    /\ canvas.width = 2
    /\ Len(tiffCompressed) = 19
    /\ Field32(tiffOut.value, EntryOffset(6) + 8) = 244
    /\ Len(tiffOut.value) = 263

\* Some pixel of the canvas has alpha < 255.
SomeAlphaBelow255 ==
    \E px \in 0..((Len(canvas.data) \div 4) - 1) : canvas.data[4 * px + 4] < 255

\* The pixel data inside the compressed stream: what is between the seven
\* bytes of the zlib and stored-block headers and the four of the checksum.
Inflated(stream) == SubSeq(stream, 8, Len(stream) - 4)

\* The file has `samples` samples per pixel: SamplesPerPixel says so,
\* BitsPerSample has that many entries of 8, the strip holds that many bytes
\* per pixel.
HasSamples(out, samples) ==
    /\ \E k \in EntryIndexes(out, 277) : Field16(out, EntryOffset(k) + 8) = samples
    /\ \E k \in EntryIndexes(out, 258) :
        /\ Field32(out, EntryOffset(k) + 4) = samples
        /\ LET o == Field32(out, EntryOffset(k) + 8)
           IN  \A i \in 0..(samples - 1) : Field16(out, o + 2 * i) = 8
    /\ Len(Inflated(tiffCompressed)) = samples * canvas.width * canvas.height

IsFourSampleTiff(out) ==
    /\ HasSamples(out, 4)
    /\ EntryIndexes(out, 338) # {}
    /\ Inflated(tiffCompressed) = canvas.data

IsThreeSampleTiff(out) ==
    /\ HasSamples(out, 3)
    /\ EntryIndexes(out, 338) = {}
    /\ \A px \in 0..((Len(canvas.data) \div 4) - 1) : \A c \in 0..2 :
        IsBlendOverWhite(Inflated(tiffCompressed)[3 * px + c + 1],
                         canvas.data[4 * px + c + 1], canvas.data[4 * px + 4])

\* C9 as the specification has it: the file has four samples exactly when
\* some pixel has alpha < 255, and three exactly when every pixel is opaque.
C9_AsStated ==
    pc = "tiff_done" =>
        /\ tiffOut.kind = "return"
        /\ IsFourSampleTiff(tiffOut.value) <=> SomeAlphaBelow255
        /\ IsThreeSampleTiff(tiffOut.value) <=> ~SomeAlphaBelow255

\* C9: canvasToTiff produces a 4-sample TIFF (SamplesPerPixel = 4, four
\* BitsPerSample entries, ExtraSamples present, RGBA pixel data) exactly when
\* transparentBackground is set and some pixel has alpha < 255; in every
\* other case it produces a 3-sample TIFF (SamplesPerPixel = 3, three
\* BitsPerSample entries, no ExtraSamples, the pixels composited over white).
C9_SampleCount ==
    pc = "tiff_done" =>
        /\ tiffOut.kind = "return"
        /\ IsFourSampleTiff(tiffOut.value) <=> (transparentBackground /\ SomeAlphaBelow255)
        /\ IsThreeSampleTiff(tiffOut.value) <=> ~(transparentBackground /\ SomeAlphaBelow255)

\* C9 witness: transparency asked for, an opaque and a transparent pixel, and
\* a file with four samples per pixel.
C9_Witness ==
    /\ pc = "tiff_done"
    /\ transparentBackground
    /\ canvas.data = <<255, 0, 0, 255, 0, 128, 255, 0>>
    /\ tiffOut.kind = "return"
    /\ IsFourSampleTiff(tiffOut.value)

\* C24 as stated: whenever the file carries ExtraSamples = 1 (associated
\* alpha), its pixel data is premultiplied: in every pixel of the strip each
\* of the three colour samples is at most the alpha sample.
C24_AsStated ==
    (pc = "tiff_done" /\ tiffOut.kind = "return"
        /\ \E k \in EntryIndexes(tiffOut.value, 338) :
                Field16(tiffOut.value, EntryOffset(k) + 8) = 1) =>
        LET strip == Inflated(tiffCompressed)
        IN  \A px \in 0..((Len(strip) \div 4) - 1) : \A c \in 1..3 :
                strip[4 * px + c] <= strip[4 * px + 4]

\* The tag codes of the IFD in the order of its entries.
TagCodes(out) == [k \in 1..Field16(out, 8) |-> Field16(out, EntryOffset(k))]

\* C18: in the file canvasToTiff makes, with and without alpha, the tag
\* codes of the IFD entries are strictly ascending, and an entry with tag
\* 338 (ExtraSamples, one SHORT of value 1) is there exactly when alpha is
\* preserved, that is when transparentBackground is set and some pixel has
\* alpha < 255; it is then the only one with that tag.
C18_AscendingTags ==
    pc = "tiff_done" =>
        LET out == tiffOut.value
            codes == TagCodes(out)
        IN  /\ tiffOut.kind = "return"
            /\ \A k \in 1..(Len(codes) - 1) : codes[k] < codes[k + 1]
            /\ IF transparentBackground /\ SomeAlphaBelow255
               THEN /\ Cardinality(EntryIndexes(out, 338)) = 1
                    /\ \A k \in EntryIndexes(out, 338) :
                          /\ Field16(out, EntryOffset(k) + 2) = 3
                          /\ Field32(out, EntryOffset(k) + 4) = 1
                          /\ Field16(out, EntryOffset(k) + 8) = 1
               ELSE EntryIndexes(out, 338) = {}

\* C18 witness: a file made with alpha preserved whose fourteen entries end
\* with DateTime (306) and ExtraSamples (338).
C18_Witness ==
    /\ pc = "tiff_done"
    /\ transparentBackground
    /\ SomeAlphaBelow255
    /\ tiffOut.kind = "return"
    /\ Len(TagCodes(tiffOut.value)) = 14
    /\ TagCodes(tiffOut.value)[13] = 306
    /\ TagCodes(tiffOut.value)[14] = 338

----------------------------------------------------------------------------
(* Claims about the validation of convertSvg *)

\* The DPI convertSvg works with: the argument, or 72 when it is left out.
GivenDpi == Default(convDpi, DEFAULT_DPI)

IsPositiveIntegerUpTo2400(dpi) ==
    /\ dpi.type = "number"
    /\ IsInteger(dpi.num)
    /\ dpi.num.n >= 1
    /\ dpi.num.n <= 2400 * dpi.num.d

\* C10 as the specification has it: once the SVG and the format have passed,
\* the DPI is accepted only if it is a positive integer no greater than 2400,
\* and every other DPI is rejected with InvalidDpi.
C10_AsStated ==
    (pc = "validated" /\ isValidSvg(convSvg)
        /\ convOut.error \notin {"TypeError", "UnsupportedFormat"}) =>
        (convOut.error = "InvalidDpi" <=> ~IsPositiveIntegerUpTo2400(GivenDpi))

----------------------------------------------------------------------------
(* Claims about convertSvg *)

\* The four checks on the arguments of the call in hand, each stated on the
\* argument itself (a format is a string, or is left out as null/undefined).
SvgCheckFails ==
    \/ convSvg.type # "string"
    \/ convSvg.text = <<>>
    \/ convSvg.parsererror
    \/ convSvg.root # "svg"
FormatCheckFails ==
    \/ convFormat.type # "string"
    \/ \A name \in supportedFormats :
          \/ Len(name) # Len(convFormat.text)
          \/ \E k \in 1..Len(name) : convFormat.text[k] \notin {name[k], name[k] - 32}
DpiCheckFails ==
    LET dpi == IF convDpi.type = "undefined" THEN Number(Num(72)) ELSE convDpi
    IN  \/ dpi.type # "number"
        \/ (dpi.num.d > 0 /\ dpi.num.n <= 0)
        \/ (dpi.num.d > 0 /\ dpi.num.n > 2400 * dpi.num.d)
QualityCheckFails ==
    LET quality == IF convQuality.type = "undefined" THEN Number(Num(1)) ELSE convQuality
    IN  \/ quality.type # "number"
        \/ (quality.num.d > 0 /\ quality.num.n < 0)
        \/ (quality.num.d > 0 /\ quality.num.n > quality.num.d)
SomeCheckFails == SvgCheckFails \/ FormatCheckFails \/ DpiCheckFails \/ QualityCheckFails
FirstFailingCheck ==
    IF SvgCheckFails THEN "InvalidSvg"
    ELSE IF FormatCheckFails THEN "UnsupportedFormat"
    ELSE IF DpiCheckFails THEN "InvalidDpi"
    ELSE "InvalidQuality"

FatalAsStated == {"rasterizer", "exif", "tiff", "png_toblob", "png_read", "jpeg_toblob"}
Uncaught == {"rasterizer", "tiff", "png_toblob", "jpeg_toblob"}
Messages ==
    {"Failed to load image from URL", "Could not get 2D context from canvas.",
     "Could not get 2D context from canvas", "IndexSizeError", "deflate failed",
     "Canvas to Blob conversion failed for PNG.",
     "Canvas to Blob conversion failed for JPEG."}
FailedWithFormatAndMessage ==
    /\ convResult.kind = "throw"
    /\ convResult.value = convFormat.text
    /\ convResult.error \in Messages
    /\ convResult.error = IF "rasterizer" \in raised THEN rasterOut.error ELSE encOut.error

\* C12 as stated: once the rasterizer or any encoder stage other than the
\* two recoverable injections has raised, convertSvg fails with the format
\* and the original message and returns no result.
C12_AsStated ==
    (pc = "convert_done" /\ raised \cap FatalAsStated # {}) => FailedWithFormatAndMessage

\* C12, amended: an error of the rasterizer, of canvasToTiff, or of a toBlob
\* that gives no blob makes convertSvg fail with the format as given and the
\* original message; when only the EXIF/JFIF stage of canvasToJpeg or the
\* stages of canvasToPng after its blob exists have raised, convertSvg
\* returns a result: the blob of the fallback toBlob for JPEG, the
\* original blob's bytes for PNG.
C12_UncaughtErrorsFail ==
    pc = "convert_done" =>
        /\ raised \cap Uncaught # {} => FailedWithFormatAndMessage
        /\ (raised # {} /\ raised \cap Uncaught = {}) =>
              /\ convResult.kind = "return"
              /\ "exif" \in raised => convResult.value.data \in PlainJpegs
              /\ raised \cap {"png_read", "png_malformed"} # {} =>
                    convResult.value.data = encBytes

\* C12 witness: a TIFF conversion has failed with the encoder's message, and
\* the format in the error is the one given ('Tiff').
C12_Witness ==
    /\ pc = "convert_done"
    /\ raised = {"tiff"}
    /\ convResult.kind = "throw"
    /\ convResult.value = <<84, 105, 102, 102>>
    /\ convResult.error = "deflate failed"

PngSignature == <<137, 80, 78, 71, 13, 10, 26, 10>>
HasPngSignature(data) == Len(data) >= 8 /\ SubSeq(data, 1, 8) = PngSignature
PngEncoderReturned ==
    /\ pc \in {"enc_await", "convert_done"}
    /\ convFormat.type = "string"
    /\ toLowerCase(convFormat.text) = <<112, 110, 103>>
    /\ rasterCalled
    /\ raised \cap {"rasterizer", "png_toblob"} = {}

\* C13 as stated: when the bytes of the blob do not start with the 8-byte PNG
\* signature, canvasToPng returns exactly those bytes (no pHYs chunk spliced
\* in) and throws nothing.
C13_AsStated ==
    (PngEncoderReturned /\ ~HasPngSignature(encBytes)) => encOut = Return(encBytes)

----------------------------------------------------------------------------
(* Claims about _setJfifDpi *)

StartsWithSoi(data) == Len(data) >= 2 /\ data[1] = 255 /\ data[2] = 216
JpegBytesRead ==
    /\ pc \in {"enc_await", "convert_done"}
    /\ convFormat.type = "string"
    /\ toLowerCase(convFormat.text) \in {<<106, 112, 103>>, <<106, 112, 101, 103>>}
    /\ rasterCalled
    /\ raised = {}

\* The step-by-step run of _setJfifDpi ends with what setJfifDpi gives.
SetJfifDpiAgrees == pc = "jfif_done" => jpegOut = Return(setJfifDpi(jpegData, jpegDpi))

\* C14: when the bytes canvasToJpeg read do not start with FF D8 (none or
\* one byte included), _setJfifDpi returns them unchanged and raises
\* nothing: canvasToJpeg returns those bytes, and convertSvg returns them
\* as the JPEG result.
C14_NoSoiUnchanged ==
    (JpegBytesRead /\ ~StartsWithSoi(encBytes)) =>
        /\ setJfifDpi(encBytes, dpiGiven) = encBytes
        /\ encOut = Return(encBytes)
        /\ pc = "convert_done" =>
              /\ convResult.kind = "return"
              /\ convResult.value.data = encBytes
              /\ convResult.value.mimeType = "image/jpeg"

\* C14 witness: a conversion has returned bytes that start with FF D9 and go
\* on with a JFIF segment, as read.
C14_Witness ==
    /\ JpegBytesRead
    /\ pc = "convert_done"
    /\ encBytes = <<255, 217>> \o JfifApp0
    /\ convResult.kind = "return"
    /\ convResult.value.data = encBytes

\* C25: for every buffer and DPI the scan for the JFIF segment ends: an
\* iteration that goes on to the next one has moved offset forward by at
\* least 2 (also past a declared length of 0, or one beyond the end of the
\* buffer), and _setJfifDpi returns.
C25_ScanTerminates ==
    /\ [][(pc = "jfif_scan" /\ pc' = "jfif_scan") => offset' >= offset + 2]_vars
    /\ <>(pc = "jfif_done" /\ jpegOut.kind = "return")

\* C25 witness: the scan has stepped over an APP2 segment of declared length
\* 0, from offset 2 to offset 4 where no marker is, and the call has returned.
C25_Witness ==
    /\ pc = "jfif_done"
    /\ jpegData = <<255, 216, 255, 226, 0, 0>>
    /\ offset = 4
    /\ jfifMarkerIndex = -1
    /\ jpegOut.kind = "return"

\* The scan steps over a segment whose declared length runs past the end of
\* the buffer, and the call returns.
StepsPastTheEnd ==
    /\ pc = "jfif_done"
    /\ offset > Len(jpegData)
    /\ jpegOut.kind = "return"

----------------------------------------------------------------------------
(* Claims about the resolution of dimensions and svgToCanvas *)

\* The numeric tokens of a viewBox: the maximal runs of characters that are
\* neither whitespace nor a comma, so that whitespace, a comma, and a comma
\* followed by whitespace each separate two tokens.
IsSeparator(c) == c = 44 \/ c \in {9, 10, 11, 12, 13, 32}
TokenStarts(cs) ==
    {i \in 1..Len(cs) : ~IsSeparator(cs[i]) /\ (i = 1 \/ IsSeparator(cs[i - 1]))}
TokenAt(cs, k) ==
    LET first == CHOOSE i \in TokenStarts(cs) :
                    Cardinality({j \in TokenStarts(cs) : j < i}) = k - 1
        last == CHOOSE j \in first..Len(cs) :
                    /\ \A i \in first..j : ~IsSeparator(cs[i])
                    /\ (j = Len(cs) \/ IsSeparator(cs[j + 1]))
    IN  SubSeq(cs, first, last)

HasAttribute(attr) == ~attr.null /\ attr.text # <<>>
ImageLoaded == pc = "raster_done" /\ rasterOut.error # "Failed to load image from URL"

\* C15 as stated: with both width and height present the dimensions are
\* their numbers; otherwise, with a viewBox of four tokens, its third and
\* fourth tokens; otherwise svgToCanvas fails with DimensionUnavailable.
C15_AsStated ==
    ImageLoaded =>
        IF HasAttribute(convSvg.width) /\ HasAttribute(convSvg.height)
        THEN dimensions = Dimensions(parseFloat(convSvg.width.text),
                                     parseFloat(convSvg.height.text))
        ELSE IF HasAttribute(convSvg.viewBox)
                    /\ Cardinality(TokenStarts(convSvg.viewBox.text)) >= 4
        THEN dimensions = Dimensions(parseFloat(TokenAt(convSvg.viewBox.text, 3)),
                                     parseFloat(TokenAt(convSvg.viewBox.text, 4)))
        ELSE rasterOut = Throw("DimensionUnavailable")

\* round(declared x dpi / 72) is a finite integer >= 1: both numbers are
\* numbers and declared x dpi / 72 >= 1/2.
TargetAtLeastOne(declared, dpi) ==
    /\ declared.d > 0
    /\ dpi.d > 0
    /\ 2 * declared.n * dpi.n >= 72 * declared.d * dpi.d

\* C16 as stated: svgToCanvas fails with InvalidDimensions when the target
\* width or height is not a finite integer >= 1, and the canvas it returns
\* otherwise has a width and a height of at least 1.
C16_AsStated ==
    ImageLoaded =>
        /\ ~(TargetAtLeastOne(dimensions.width, dpiGiven)
                /\ TargetAtLeastOne(dimensions.height, dpiGiven))
              => rasterOut = Throw("InvalidDimensions")
        /\ rasterOut.kind = "return" =>
              rasterOut.value.width >= 1 /\ rasterOut.value.height >= 1

\* r is p / q rounded to the nearest integer, an exact half rounded up:
\* r <= p / q + 1/2 < r + 1.
IsRoundHalfUp(r, p, q) == 2 * q * r <= 2 * p + q /\ 2 * p + q < 2 * q * (r + 1)

Declares100 ==
    /\ ~convSvg.width.null /\ convSvg.width.text = <<49, 48, 48>>
    /\ ~convSvg.height.null /\ convSvg.height.text = <<49, 48, 48>>
IntegerDpiUpTo2400 ==
    /\ convDpi.type = "number"
    /\ convDpi.num.d = 1
    /\ convDpi.num.n \in 1..2400

\* C17: for a document declaring width="100" and height="100" and every
\* integer DPI of 1..2400, the canvas svgToCanvas returns has width and
\* height both equal to 100 x dpi / 72 rounded to the nearest integer, an
\* exact half rounded up.
C17_CanvasSize ==
    (pc = "raster_done" /\ rasterOut.kind = "return" /\ Declares100 /\ IntegerDpiUpTo2400) =>
        /\ IsRoundHalfUp(rasterOut.value.width, 100 * convDpi.num.n, 72)
        /\ IsRoundHalfUp(rasterOut.value.height, 100 * convDpi.num.n, 72)
        /\ rasterOut.value.width = rasterOut.value.height

\* C17 witness: at 9 DPI, where 100 x 9 / 72 = 12.5, the canvas is 13 by 13.
C17_Witness ==
    /\ pc = "raster_done"
    /\ rasterOut.kind = "return"
    /\ Declares100
    /\ convDpi = Number(Num(9))
    /\ rasterOut.value.width = 13
    /\ rasterOut.value.height = 13

----------------------------------------------------------------------------
(* Claims about buffers *)

StageReturned == pc \in {"heap_rgb_done", "heap_png_done", "heap_jfif_done"}

\* C19: when _rgbaToRgb (either flag), _addPngDpiChunk or _setJfifDpi has
\* returned, the buffer it was given holds the bytes it held at the call; the
\* result of _rgbaToRgb with preserveTransparency = true is another buffer,
\* not allocated at the call, that holds the same bytes.  What the other
\* calls return is the value the stage computes from those bytes.
C19_InputsNotMutated ==
    StageReturned =>
        /\ heap[argRef] = given
        /\ (pc = "heap_rgb_done" /\ stageArg = TRUE) =>
              /\ outRef # argRef
              /\ outRef > 1
              /\ heap[outRef] = given
        /\ (pc = "heap_rgb_done" /\ stageArg = FALSE) =>
              heap[outRef] = rgbaToRgb(given, FALSE)
        /\ (pc = "heap_png_done" /\ outRef # 0) =>
              heap[outRef] = addPngDpiChunk(given, stageArg).value
        /\ pc = "heap_jfif_done" => heap[outRef] = setJfifDpi(given, stageArg)

\* C19 witness: _setJfifDpi has patched a JFIF segment for 300 DPI in a buffer
\* that is not its argument.
C19_Witness ==
    /\ pc = "heap_jfif_done"
    /\ given = <<255, 216>> \o JfifApp0
    /\ stageArg = Num(300)
    /\ outRef # argRef
    /\ heap[outRef] # given
    /\ heap[argRef] = given

----------------------------------------------------------------------------
(* Claims about the suspension points of a conversion *)

FormatIs(names) == convFormat.type = "string" /\ toLowerCase(convFormat.text) \in names

\* The wait for the rasterizer: svgToCanvas waiting for the image, and
\* convertSvg waiting for svgToCanvas.
RasterizerWait == {"raster_await", "raster_done"}

\* C20 as stated: the wait for the rasterizer is the only suspension, so
\* another task runs during that wait or not at all.
C20_AsStated == otherRanAt \subseteq RasterizerWait

\* C20, amended: another task runs only while the conversion is suspended
\* in an await, and the awaits are: the wait for the rasterizer; convertSvg's
\* await of the encoder's promise; for PNG also the waits for toBlob and for
\* the blob's bytes; for JPEG also the waits for fetch, for the response's
\* bytes, and for toBlob in the fallback.  For TIFF the encoder itself has
\* no await.  No task runs before the rasterizer is called or after
\* convertSvg has completed.
C20_SuspensionPoints ==
    /\ otherRanAt \subseteq
          RasterizerWait \cup {"enc_await"}
            \cup (IF FormatIs({<<112, 110, 103>>})
                  THEN {"png_toblob", "png_arraybuffer"} ELSE {})
            \cup (IF FormatIs({<<106, 112, 103>>, <<106, 112, 101, 103>>})
                  THEN {"jpeg_fetch", "jpeg_arraybuffer", "jpeg_fallback"} ELSE {})
    /\ pc \in {"convert", "validated", "raster"} => otherRanAt = {}

\* C20 witness: a PNG conversion has returned its result with another task
\* having run at each of its five awaits.
C20_Witness ==
    /\ pc = "convert_done"
    /\ FormatIs({<<112, 110, 103>>})
    /\ convResult.kind = "return"
    /\ otherRanAt = {"raster_await", "raster_done", "png_toblob", "png_arraybuffer",
                     "enc_await"}

----------------------------------------------------------------------------
(* Claims about the transparency flag *)

\* C21 as stated: in a conversion to jpg/jpeg the canvas rasterized is the
\* one a call with transparentBackground = false gets, whatever the flag:
\* opaque and filled with white before the image is drawn.
C21_AsStated ==
    (pc = "raster_done" /\ rasterOut.kind = "return"
        /\ FormatIs({<<106, 112, 103>>, <<106, 112, 101, 103>>})) =>
        /\ rasterOut.value.alpha = FALSE
        /\ rasterOut.value.fill = "white"

----------------------------------------------------------------------------
(* Claims about the page *)

\* C26 as stated: in every state of the page, when svgContent is not empty
\* a file is selected (svgFile is not null) and svgContent is the text of
\* that file, which isValidSvg accepts.
C26_AsStated ==
    (pc = "ui" /\ ~IsEmpty(svgContent)) =>
        /\ svgFile # None
        /\ svgContent = FileContent(svgFile)
        /\ isValidSvg(svgContent)

\* C27 as stated: while a conversion is in flight (isConverting is true,
\* its setProgress(25) has run), progress is not 0: no reset timer of an
\* earlier conversion sets it back.
C27_AsStated ==
    (pc = "ui" /\ isConverting) => progress # 0

\* C28: in every state the page reaches through its event handlers,
\* outputFormat = 'jpeg' implies transparentBackground = false.
C28_JpegIsOpaque ==
    outputFormat = "jpeg" => uiTransparentBackground = FALSE

\* C28 witness: JPEG has just been chosen while the background checkbox was
\* checked, and the flag is now false.
C28_Witness ==
    /\ pc = "ui"
    /\ outputFormat = "jpeg"
    /\ flagCleared
    /\ uiTransparentBackground = FALSE

====
